---- MODULE Spec2Model ----
(***************************************************************************)
(* A state-machine model of digest2 (soniakeys/digest2): the d2solver      *)
(* search core (solver.go, cliperr.go), the bin model (d2bin), the         *)
(* histogram builder muk, and the repeatable-mode worker of the driver.    *)
(*                                                                         *)
(* Units.  The program computes in float64.  The model is fixed point:     *)
(*   distances          0.01 AU        (min_distance .05 AU = 5)           *)
(*   angles             0.01 rad       (minAngleStep .1 rad = 10)          *)
(*   q, a               0.01 AU                                            *)
(*   e                  0.01                                               *)
(*   i                  degrees                                            *)
(*   H                  0.1 mag                                            *)
(*   obs. error         1e-7 rad       (1 arc second = 48 units)           *)
(*   measured rms       0.1 arc second                                     *)
(* The vector geometry and trigonometry that turn a tracklet, a distance   *)
(* and an angle into orbital elements are a function of the tracklet: each *)
(* tracklet carries the table of their results (see Skies), one entry for  *)
(* each band of distance and of angle the code can tell apart.             *)
(***************************************************************************)
EXTENDS Integers, Sequences, FiniteSets, TLC

(***************************************************************************)
(* Bounds of the model.                                                    *)
(***************************************************************************)
\* far limit of the distance search.  The program's max_distance is 100 AU
\* (solver.go:140); the model searches from min_distance to this limit.
max_distance == 26

\* widest parabolic-limit angle range solveAngleRange yields in the model
MaxAngle == 31

\* number of synthetic orbits binned into s3m, of catalogued orbits read by muk
MaxS3m == 1
MaxKnown == 1

\* significant bits of a floating-point number.  The program's float64 has
\* 53; rounding to nearest, ties to even, is modelled at this precision.
FloatBits == 6

(***************************************************************************)
(* Program constants (solver.go:138-145), in the model's units.            *)
(***************************************************************************)
min_distance == 5
minDistanceStep == 20
minAngleStep == 10
ageLimit == 1

(***************************************************************************)
(* d2bin: partitions, bin indexes, orbit classes.                          *)
(***************************************************************************)
\* The partitions are data read from the model file; these are short ones
\* with the same shape: strictly increasing upper bin edges.
QPart == <<130, 200, 300>>
EPart == <<50>>
IPart == <<40>>
HPart == <<220, 230>>

LastH == Len(HPart) - 1

MSize == Len(QPart) * Len(EPart) * Len(IPart) * Len(HPart)

Bins == 0 .. (MSize - 1)

\* an index that leaves the length of the H axis out
MxNoH(ne, ni, nh, iq, ie, ii, ih) == ((iq * ne + ie) * ni + ii) + ih

\* Mx with the lengths of EPart, IPart and HPart, which are package
\* variables set when the model is loaded
MxOf(ne, ni, nh, iq, ie, ii, ih) == ((iq * ne + ie) * ni + ii) * nh + ih

\* Mx computes an index into the flat representation of a model.
Mx(iq, ie, ii, ih) == MxOf(Len(EPart), Len(IPart), Len(HPart), iq, ie, ii, ih)

\* A float64 that is not a number, as math.Sqrt of a negative argument
\* returns; every other value of the model is a whole number above it.
NaN == -1000000

\* v >= x of float64: false when v is not a number
GE(v, x) == v # NaN /\ v >= x

\* One axis of Qei: the loop "for v >= Part[x] { x++; if x == len(Part)
\* { return } }".  The result Len(Part) stands for the early return.
RECURSIVE AxisIndex(_, _, _)
AxisIndex(part, v, x) ==
    IF GE(v, part[x + 1])
    THEN IF x + 1 = Len(part) THEN Len(part) ELSE AxisIndex(part, v, x + 1)
    ELSE x

\* Qei takes three real-valued elements and returns their bin indexes.
\* The Go function returns as soon as one axis runs off its partition, with
\* inModel = false and the named results as they stand: the length of that
\* partition on that axis, 0 on the axes not yet looked at.
Qei(q, e, i) ==
    LET qx == AxisIndex(QPart, q, 0)
        ex == AxisIndex(EPart, e, 0)
        ix == AxisIndex(IPart, i, 0)
    IN  IF qx = Len(QPart) THEN [qx |-> qx, ex |-> 0, ix |-> 0, inModel |-> FALSE]
        ELSE IF ex = Len(EPart) THEN [qx |-> qx, ex |-> ex, ix |-> 0, inModel |-> FALSE]
        ELSE IF ix = Len(IPart) THEN [qx |-> qx, ex |-> ex, ix |-> ix, inModel |-> FALSE]
        ELSE [qx |-> qx, ex |-> ex, ix |-> ix, inModel |-> TRUE]

\* H takes a real-valued H magnitude and returns the corresponding bin index:
\* "for ; h >= HPart[ih] && ih < LastH; ih++ {}".
RECURSIVE HLoop(_, _)
HLoop(h, ih) == IF GE(h, HPart[ih + 1]) /\ ih < LastH THEN HLoop(h, ih + 1) ELSE ih

H(h) == HLoop(h, 0)

\* CList, the modeled orbit classes.  The model carries the first five
\* (Int, NEO, N22, N18, MC); the other ten need a = q/(1-e) against
\* fractional limits, a square root and a cosine.
\* Q > x, with Q = q*(1+e)/(1-e) and e < 1, is q*(1+e) > x*(1-e).
\* (A comparison with a NaN is false.)
isMpcint(q, e, i, h) ==
    \/ q # NaN /\ q < 130
    \/ GE(e, 50)
    \/ GE(i, 40)
    \/ q # NaN /\ e # NaN /\ q * (100 + e) > 1000 * (100 - e)

isNeo(q, e, i, h) == q # NaN /\ q < 130

isCMO(q, e, i, h) == q # NaN /\ q < 130 /\ h < 225

isH18Neo(q, e, i, h) == q # NaN /\ q < 130 /\ h < 185

isMarsCrosser(q, e, i, h) ==
    q # NaN /\ e # NaN /\ q < 167 /\ q >= 130 /\ q * (100 + e) > 158 * (100 - e)

IsClass(c, q, e, i, h) ==
    CASE c = 0 -> isMpcint(q, e, i, h)
      [] c = 1 -> isNeo(q, e, i, h)
      [] c = 2 -> isCMO(q, e, i, h)
      [] c = 3 -> isH18Neo(q, e, i, h)
      [] OTHER -> isMarsCrosser(q, e, i, h)

Classes == 0 .. 4

(***************************************************************************)
(* astro.AeiHv: the two stability gates.  A state vector is given by the   *)
(* quantities the gates read: d (Sun-object distance), temp = 2 - d*v^2    *)
(* (unit 0.01), and the e and i the vector products yield.                 *)
(***************************************************************************)
Nil == [ok |-> FALSE, a |-> 0, e |-> 0, i |-> 0]

AeiHv(sv) ==
    IF sv.d > sv.temp * 100 THEN Nil          \* for stability, require a < 100
    ELSE IF sv.e # NaN /\ sv.e > 99 THEN Nil  \* stability test: require e < .99
    ELSE [ok |-> TRUE, a |-> (sv.d * 100) \div sv.temp, e |-> sv.e, i |-> sv.i]

\* The state vectors one tagAngle call may meet: an NEO, a Mars crosser, a
\* main-belt orbit, an orbit beyond the q partition, a hyperbolic one and a
\* near-parabolic one.
SvNeo == [d |-> 100, temp |-> 100, e |-> 10, i |-> 5]

SvMc == [d |-> 180, temp |-> 100, e |-> 10, i |-> 5]

SvMb == [d |-> 250, temp |-> 100, e |-> 10, i |-> 5]

SvOut == [d |-> 500, temp |-> 100, e |-> 10, i |-> 5]

SvHyp == [d |-> 100, temp |-> -50, e |-> 10, i |-> 5]

SvPar == [d |-> 100, temp |-> 100, e |-> 100, i |-> 5]

\* a circular orbit for which 1 - hsq*inva rounds below zero: math.Sqrt
\* returns NaN
SvCirc == [d |-> 250, temp |-> 100, e |-> NaN, i |-> 5]

(***************************************************************************)
(* float64 arithmetic.  A value is held exactly (an integer, or for a      *)
(* score an integer count of 2^-FloatBits); every operation rounds its     *)
(* exact result to FloatBits significant bits, to nearest, ties to even,   *)
(* as IEEE 754 does with 53.                                               *)
(***************************************************************************)
RECURSIVE Pow2(_)
Pow2(n) == IF n = 0 THEN 1 ELSE 2 * Pow2(n - 1)

\* the unit in the last place of n >= 0: the least power of two u with
\* n < u * 2^FloatBits
RECURSIVE UlpFrom(_, _)
UlpFrom(n, u) == IF n < u * Pow2(FloatBits) THEN u ELSE UlpFrom(n, 2 * u)

Ulp(n) == UlpFrom(n, 1)

\* the integer nearest N/D, ties to even (N >= 0, D > 0)
RoundEven(N, D) ==
    LET m == N \div D
        r == N % D
    IN  IF 2 * r < D THEN m
        ELSE IF 2 * r > D THEN m + 1
        ELSE IF m % 2 = 0 THEN m ELSE m + 1

FlNat(n) == RoundEven(n, Ulp(n)) * Ulp(n)

Fl(n) == IF n < 0 THEN 0 - FlNat(0 - n) ELSE FlNat(n)

FAdd(a, b) == Fl(a + b)

FSub(a, b) == Fl(a - b)

FMul(a, b) == Fl(a * b)

\* a score is counted in units of 2^-FloatBits
ScoreUnit == Pow2(FloatBits)

\* n / d (n >= 0, d > 0), in score units
FDiv(n, d) ==
    LET N == n * ScoreUnit
        u == Ulp(N \div d)
    IN  RoundEven(N, d * u) * u

(***************************************************************************)
(* The deterministic generator of repeatable mode (mcc.go:278-294):        *)
(* lcgRand is a uint64, here eight bytes, least significant first.         *)
(***************************************************************************)
\* lcga = 13^13 = 302875106592253
lcga == <<253, 197, 35, 155, 118, 19, 1, 0>>

RECURSIVE Convolve(_, _, _, _)
Convolve(x, a, k, i) == IF i > k THEN 0 ELSE x[i] * a[k + 1 - i] + Convolve(x, a, k, i + 1)

\* x * a in wrapping 64-bit unsigned arithmetic: the bytes from k on.
RECURSIVE MulWrap(_, _, _, _)
MulWrap(x, a, k, carry) ==
    IF k > 8 THEN <<>>
    ELSE LET s == carry + Convolve(x, a, k, 1)
         IN  <<s % 256>> \o MulWrap(x, a, k + 1, s \div 256)

\* "& lcgm", lcgm = 2^59 - 1: the top byte keeps its low three bits.
MaskLcgm(x) == [x EXCEPT ![8] = @ % 8]

\* *r = *r * lcga & lcgm
LcgNext(r) == MaskLcgm(MulWrap(r, lcga, 1, 0))

\* float64(*r) * invLcgm, to the model's resolution of one eighth: the three
\* leading bits of the 59-bit state.
LcgValue(r) == r[8]

U64(n) == <<n % 256, (n \div 256) % 256, 0, 0, 0, 0, 0, 0>>

\* the seed of repeatable mode: "*rnd.(*lcgRand) = 3"
LcgSeed == U64(3)

\* The worker's generator (mcc.go:304-309): an lcgRand when repeatable, else
\* math/rand seeded from the clock, whose values are any values in [0,1).
NewRand(rep) == [lcg |-> rep, r |-> U64(0)]

Seed3(g) == IF g.lcg THEN [g EXCEPT !.r = LcgSeed] ELSE g

\* Rand.Float64: the possible results, each the value (in eighths) and the
\* generator after the call.
Float64(g) ==
    IF g.lcg
    THEN { [v |-> LcgValue(LcgNext(g.r)), g |-> [g EXCEPT !.r = LcgNext(g.r)]] }
    ELSE { [v |-> k, g |-> g] : k \in 0 .. 7 }

(***************************************************************************)
(* muk (muk.go:236-375) and s3mbin: the histograms.  A model is            *)
(* [SS, Class], SS[x] the population of bin x and Class[c][x] that part of *)
(* it in class c.                                                          *)
(***************************************************************************)
\* d2bin.New
NewModel == [SS |-> [x \in Bins |-> 0], Class |-> [c \in Classes |-> [x \in Bins |-> 0]]]

\* One orbit counted, as s3mbin counts a synthetic orbit and muk.go:299-313
\* a catalogued one: Qeih, then SS[bx]++ and Class[c][bx]++ where IsClass.
CountOrbit(m, o) ==
    LET b == Qei(o.q, o.e, o.i)
        bx == Mx(b.qx, b.ex, b.ix, H(o.h))
    IN  IF ~b.inModel THEN m
        ELSE [SS |-> [m.SS EXCEPT ![bx] = @ + 1],
              Class |-> [c \in Classes |->
                  IF IsClass(c, o.q, o.e, o.i, o.h)
                  THEN [m.Class[c] EXCEPT ![bx] = @ + 1] ELSE m.Class[c]]]

RECURSIVE CountOrbits(_, _)
CountOrbits(m, os) == IF os = <<>> THEN m ELSE CountOrbits(CountOrbit(m, Head(os)), Tail(os))

\* isqv = 1 / math.Sqrt(daei*(h1-h0)) (muk.go:352), the weight of bin x.  The
\* volume is positive for strictly increasing partitions; the square root is
\* not integer arithmetic, and the model takes a table of positive weights.
IsqvTable == <<3, 3, 1, 21, 2, 5>>

Isqv(x) == IsqvTable[x + 1]

\* muk.go:354-360
MukSS(s, k, x) ==
    IF k.SS[x] > s.SS[x]
    THEN [all |-> FMul(Fl(k.SS[x]), Isqv(x)), unk |-> 0]
    ELSE [all |-> FMul(Fl(s.SS[x]), Isqv(x)),
          unk |-> FMul(Fl(s.SS[x] - k.SS[x]), Isqv(x))]

\* muk.go:361-370
MukClass(s, k, c, x) ==
    IF k.Class[c][x] > s.Class[c][x]
    THEN [all |-> FMul(Fl(k.Class[c][x]), Isqv(x)), unk |-> 0]
    ELSE [all |-> FMul(Fl(s.Class[c][x]), Isqv(x)),
          unk |-> FMul(Fl(s.Class[c][x] - k.Class[c][x]), Isqv(x))]

\* from s3m and known, produce all=max(s3m, known)/sqrt(v) and
\* unk=(all-known)/sqrt(v)
MukAll(s, k) ==
    [SS |-> [x \in Bins |-> MukSS(s, k, x).all],
     Class |-> [c \in Classes |-> [x \in Bins |-> MukClass(s, k, c, x).all]]]

MukUnk(s, k) ==
    [SS |-> [x \in Bins |-> MukSS(s, k, x).unk],
     Class |-> [c \in Classes |-> [x \in Bins |-> MukClass(s, k, c, x).unk]]]

\* The orbits of the synthetic model and of the catalogue: two NEOs in the
\* same bin on either side of the N22 limit, a main-belt orbit, and one
\* outside the model.
Orbits ==
    { [q |-> 90, e |-> 10, i |-> 5, h |-> 224],
      [q |-> 90, e |-> 10, i |-> 5, h |-> 227],
      [q |-> 225, e |-> 10, i |-> 5, h |-> 224],
      [q |-> 450, e |-> 10, i |-> 5, h |-> 224] }

OrbitLists(n) == UNION { [1 .. k -> Orbits] : k \in 0 .. n }

(***************************************************************************)
(* The solver's inputs.                                                    *)
(***************************************************************************)
\* The histograms muk writes and readModel loads.
Histograms ==
    { [all |-> MukAll(CountOrbits(NewModel, so), CountOrbits(NewModel, ko)),
       unk |-> MukUnk(CountOrbits(NewModel, so), CountOrbits(NewModel, ko))] :
      so \in OrbitLists(MaxS3m), ko \in OrbitLists(MaxKnown) }

\* readConfig's obserr lines: a default and per-site values (unit 1e-7 rad;
\* 48 is one arc second).  A Go map is a function on the keys present.
NoObsErrMap == [q \in {} |-> 0]

ObsErrConfigs ==
    { [obsErrMap |-> NoObsErrMap, obsErrDefault |-> 0],
      [obsErrMap |-> NoObsErrMap, obsErrDefault |-> 48],
      [obsErrMap |-> [q \in {"F51"} |-> 10], obsErrDefault |-> 0] }

\* the classes to compute: NEO and N22 (one class below 2, one not)
ClassComputes == { <<1, 2>> }

\* An angle range solveAngleRange returns, or its failure (dsc not > 0).
NoRange == [ok |-> FALSE, ang1 |-> 0, ang2 |-> 0]

WideRange == [ok |-> TRUE, ang1 |-> 0, ang2 |-> MaxAngle]

ShortRange == [ok |-> TRUE, ang1 |-> 0, ang2 |-> MaxAngle - 7]

\* A sky is what the vector geometry makes of a tracklet: for the near and
\* the far half of the distance range the H magnitude
\* (solveDistanceDependentVectors) and the parabolic limits
\* (solveAngleRange), and for each half of each the state vector that
\* tagAngle hands to AeiHv.
Skies ==
    { [hmag |-> <<224, 227>>, range |-> <<WideRange, ShortRange>>,
       sv |-> << <<SvNeo, SvMb>>, <<SvNeo, SvOut>> >>],
      [hmag |-> <<180, 300>>, range |-> <<ShortRange, NoRange>>,
       sv |-> << <<SvMc, SvMb>>, <<SvHyp, SvPar>> >>] }

DBand(d) == IF 2 * d < min_distance + max_distance THEN 1 ELSE 2

ABand(an) == IF 2 * an < MaxAngle THEN 1 ELSE 2

\* What twoObs yields: the rms of the two synthesized observations (unit
\* 0.1 arc second; 0 when none could be computed) and their obscodes.
Otks ==
    { [firstRms |-> 0, lastRms |-> 0, qual1 |-> "F51", qual2 |-> "F51"],
      [firstRms |-> 5, lastRms |-> 30, qual1 |-> "703", qual2 |-> "F51"] }

Arcs == { [otk |-> o, sky |-> k] : o \in Otks, k \in Skies }

(***************************************************************************)
(* State.                                                                  *)
(***************************************************************************)
VARIABLES
    muk,        \* the histogram builder: s3m, known, all, unk and its position
    solver,     \* D2Solver: all, unk, classCompute, obsErrMap, obsErrDefault
    repeatable, \* the repeatable keyword of the configuration
    arcCh,      \* the tracklets this worker will receive, in order
    history,    \* the tracklets solved so far with their scores
    arc,        \* the tracklet being solved
    tk,         \* the solver's per-tracklet workspace (struct tracklet)
    rnd,        \* the worker's random number generator
    stack,      \* call stack of the solve, innermost call last
    ret,        \* value returned by the call that returned last
    phase,      \* "idle" before the solve, "solving", "done" after
    promoted,   \* history: promotions so far, per <<class position, side, bin>>
    saCalls,    \* history: the offsets <<ri, di>> at which the current
                \* searchDistance has called searchAngles
    drv,        \* the driver: Main, its goroutines and its channels
    probe       \* a function of the program applied to an input: the call
                \* and what it returned

vars == <<muk, solver, repeatable, arcCh, history, arc, tk, rnd, stack, ret, phase,
          promoted, saCalls, drv, probe>>

\* what a solve leaves alone
cfg == <<muk, solver, repeatable, drv, probe>>

\* the driver not started, no function applied
NoDrv == [pc |-> "off"]

NoProbe == [fn |-> "none"]

\* call depth beyond which the model does not follow the program
MaxDepth == 24

\* classStats as newTracklet allocates it
NewClassStats ==
    [tagInClass |-> {}, tagNonClass |-> {}, dInClass |-> {}, dNonClass |-> {},
     sumAllInClass |-> 0, sumAllNonClass |-> 0,
     sumUnkInClass |-> 0, sumUnkNonClass |-> 0]

NoScores == [Raw |-> 0, NoId |-> 0]

\* newTracklet (solver.go:100-118)
newTracklet(s) ==
    [firstObsErr |-> 0, lastObsErr |-> 0, noObsErr |-> FALSE,
     d |-> 0, hmag |-> 0, hmagBin |-> 0, dAnyTag |-> FALSE, dTag |-> {},
     cs |-> [cx \in DOMAIN s.classCompute |-> NewClassStats],
     classScores |-> [cx \in DOMAIN s.classCompute |-> NoScores]]

NoArc == [otk |-> [firstRms |-> 0, lastRms |-> 0, qual1 |-> "", qual2 |-> ""],
          sky |-> [hmag |-> <<0, 0>>, range |-> <<NoRange, NoRange>>,
                   sv |-> << <<SvHyp, SvHyp>>, <<SvHyp, SvHyp>> >>]]

\* muk before it runs
NoMuk == [s3m |-> NewModel, known |-> NewModel, all |-> NewModel, unk |-> NewModel,
          nRead |-> 0, x |-> 0, pc |-> "off"]

NoPromotions(cc) == [t \in (DOMAIN cc) \X {"in", "non"} \X Bins |-> 0]

\* tags is history: the tracklet-scope tags when searchDistance was entered
Frame(fn, d1, d2, age) ==
    [fn |-> fn, pc |-> "enter", d1 |-> d1, d2 |-> d2, age |-> age,
     mid |-> 0, ri |-> 0, di |-> 0, newTag |-> FALSE, tags |-> {}]

Top == stack[Len(stack)]

At(fn, pc) == stack # <<>> /\ Top.fn = fn /\ Top.pc = pc

Pop == SubSeq(stack, 1, Len(stack) - 1)

\* the caller's frame updated, then the callee's pushed
Call(callerPc, f) == Append([stack EXCEPT ![Len(stack)].pc = callerPc], f)

Init ==
    /\ \E h \in Histograms, oe \in ObsErrConfigs, cc \in ClassComputes :
           solver = [all |-> h.all, unk |-> h.unk, classCompute |-> cc,
                     obsErrMap |-> oe.obsErrMap, obsErrDefault |-> oe.obsErrDefault]
    /\ muk = NoMuk
    /\ repeatable = TRUE
    /\ \E a \in Arcs : arcCh = <<a>>
    /\ history = <<>>
    /\ arc = NoArc
    /\ tk = newTracklet(solver)
    /\ rnd = NewRand(repeatable)
    /\ stack = <<>>
    /\ ret = FALSE
    /\ phase = "idle"
    /\ promoted = NoPromotions(solver.classCompute)
    /\ saCalls = <<>>
    /\ drv = NoDrv
    /\ probe = NoProbe

(***************************************************************************)
(* clipErr (cliperr.go:11-35).                                             *)
(***************************************************************************)
\* the measured rms taken as it is, as if it were in radians
ArcsecAsRad(rms) == rms

\* computedRms * math.Pi / (180 * 3600): 0.1 arc second is 4.848e-7 rad
ArcsecToRad(rms) == (rms * 4848) \div 1000

\* a clipErr that lets a measured rms override a configured zero
clipErrRmsFirst(s, computedRms, qual) ==
    LET defaultErr == IF qual \in DOMAIN s.obsErrMap THEN s.obsErrMap[qual]
                      ELSE s.obsErrDefault
        computedErr == ArcsecToRad(computedRms)
    IN  IF computedRms = 0 THEN defaultErr
        ELSE IF defaultErr > computedErr THEN defaultErr
        ELSE computedErr

clipErr(s, computedRms, qual) ==
    LET defaultErr == IF qual \in DOMAIN s.obsErrMap THEN s.obsErrMap[qual]
                      ELSE s.obsErrDefault
        computedErr == ArcsecToRad(computedRms)
    IN  IF defaultErr = 0 THEN 0
        ELSE IF computedRms = 0 THEN defaultErr
        ELSE IF defaultErr > computedErr THEN defaultErr
        ELSE computedErr

(***************************************************************************)
(* Solve and score (solver.go:147-198).                                    *)
(***************************************************************************)
\* The worker takes its next tracklet: it reseeds the generator when
\* repeatable and calls solver.Solve, which allocates the workspace and
\* calls score.
Solve ==
    /\ phase \in {"idle", "done"}
    /\ arcCh # <<>>
    /\ arc' = Head(arcCh)
    /\ arcCh' = Tail(arcCh)
    /\ rnd' = Seed3(rnd)
    /\ tk' = newTracklet(solver)
    /\ stack' = <<Frame("score", 0, 0, 0)>>
    /\ phase' = "solving"
    /\ promoted' = NoPromotions(solver.classCompute)
    /\ UNCHANGED <<cfg, history, ret, saCalls>>

\* score up to its first call: twoObs, clipErr twice, noObsErr,
\* searchDistance(min_distance)
Score ==
    /\ At("score", "enter")
    /\ LET e1 == clipErr(solver, arc.otk.firstRms, arc.otk.qual1)
           e2 == clipErr(solver, arc.otk.lastRms, arc.otk.qual2)
       IN  tk' = [tk EXCEPT !.firstObsErr = e1, !.lastObsErr = e2,
                            !.noObsErr = (e1 = 0 /\ e2 = 0)]
    /\ stack' = Call("sd_min", Frame("searchDistance", min_distance, 0, 0))
    /\ UNCHANGED <<cfg, arcCh, history, arc, rnd, ret, phase, promoted, saCalls>>

ScoreSearchMax ==
    /\ At("score", "sd_min")
    /\ stack' = Call("sd_max", Frame("searchDistance", max_distance, 0, 0))
    /\ UNCHANGED <<cfg, arcCh, history, arc, tk, rnd, ret, phase, promoted, saCalls>>

ScoreDRange ==
    /\ At("score", "sd_max")
    /\ stack' = Call("dRange", Frame("dRange", min_distance, max_distance, 0))
    /\ UNCHANGED <<cfg, arcCh, history, arc, tk, rnd, ret, phase, promoted, saCalls>>

\* a final loop whose fallback is 100 for every class
ClassScoreAnyClass(sumIn, sumNon, c) ==
    LET d == FAdd(sumIn, sumNon)
    IN  IF d > 0 THEN FDiv(FMul(100, sumIn), d)
        ELSE 100 * ScoreUnit

\* one score of the final loop: 100 * sumIn / d, d = sumIn + sumNon
ClassScore(sumIn, sumNon, c) ==
    LET d == FAdd(sumIn, sumNon)
    IN  IF d > 0 THEN FDiv(FMul(100, sumIn), d)
        ELSE IF c < 2 THEN 100 * ScoreUnit
        ELSE 0

ScoreFinal ==
    /\ At("score", "dRange")
    /\ tk' = [tk EXCEPT !.classScores = [cx \in DOMAIN tk.cs |->
                 [Raw |-> ClassScore(tk.cs[cx].sumAllInClass,
                                      tk.cs[cx].sumAllNonClass,
                                      solver.classCompute[cx]),
                  NoId |-> ClassScore(tk.cs[cx].sumUnkInClass,
                                       tk.cs[cx].sumUnkNonClass,
                                       solver.classCompute[cx])]]]
    /\ stack' = Pop
    /\ phase' = "done"
    /\ history' = Append(history, [arc |-> arc, classScores |-> tk'.classScores])
    /\ UNCHANGED <<cfg, arcCh, arc, rnd, ret, promoted, saCalls>>

(***************************************************************************)
(* searchDistance (solver.go:232-263).  Frame fields: d1 the distance, ri  *)
(* and di the loop variables, newTag the local of that name.               *)
(***************************************************************************)
clearDTags(t) ==
    [t EXCEPT !.dAnyTag = FALSE, !.dTag = {},
              !.cs = [cx \in DOMAIN t.cs |->
                         [t.cs[cx] EXCEPT !.dInClass = {}, !.dNonClass = {}]]]

\* the tracklet-scope tags of every class: tagInClass and tagNonClass
TrackletTags(t) ==
    UNION { ({<<cx, "in">>} \X t.cs[cx].tagInClass) \cup
            ({<<cx, "non">>} \X t.cs[cx].tagNonClass) : cx \in DOMAIN t.cs }

\* entry: clearDTags, dAnyTag = false, ri = di = -1
SearchDistance ==
    /\ At("searchDistance", "enter")
    /\ tk' = clearDTags(tk)
    /\ stack' = [stack EXCEPT ![Len(stack)] = [@ EXCEPT !.pc = "loop", !.ri = -1, !.di = -1,
                                                        !.newTag = FALSE,
                                                        !.tags = TrackletTags(tk)]]
    /\ saCalls' = <<>>
    /\ UNCHANGED <<cfg, arcCh, history, arc, rnd, ret, phase, promoted>>

\* loop body up to the call: offsetMotionVector, solveDistanceDependentVectors
SearchDistanceLoop ==
    /\ At("searchDistance", "loop")
    /\ Len(stack) < MaxDepth
    /\ LET h == arc.sky.hmag[DBand(Top.d1)]
       IN  tk' = [tk EXCEPT !.d = Top.d1, !.hmag = h, !.hmagBin = H(h)]
    /\ stack' = Call("called", Frame("searchAngles", 0, 0, 0))
    /\ saCalls' = Append(saCalls, <<Top.ri, Top.di>>)
    /\ UNCHANGED <<cfg, arcCh, history, arc, rnd, ret, phase, promoted>>

\* an outer loop that stops one short, "ri < 1"
LastOffsetShort(ri, di) == ri = 0 /\ di = 1

\* the loop conditions ri <= 1 and di <= 1 both fail after this iteration
LastOffset(ri, di) == ri = 1 /\ di = 1

\* newTag taking the result of the last call only
LastResult(newTag, result) == result

\* if tk.searchAngles() { newTag = true }
KeepNewTag(newTag, result) == newTag \/ result

\* after the call: newTag, the noObsErr return, the loop increments
SearchDistanceNext ==
    /\ At("searchDistance", "called")
    /\ LET f == Top
           newTag == KeepNewTag(f.newTag, ret)
       IN  IF tk.noObsErr \/ LastOffset(f.ri, f.di)
           THEN /\ stack' = Pop
                /\ ret' = newTag
           ELSE /\ stack' = [stack EXCEPT ![Len(stack)] =
                                [@ EXCEPT !.pc = "loop", !.newTag = newTag,
                                          !.ri = IF f.di = 1 THEN f.ri + 1 ELSE f.ri,
                                          !.di = IF f.di = 1 THEN -1 ELSE f.di + 1]]
                /\ UNCHANGED ret
    /\ UNCHANGED <<cfg, arcCh, history, arc, tk, rnd, phase, promoted, saCalls>>

(***************************************************************************)
(* searchAngles (solver.go:340-376).                                       *)
(***************************************************************************)
\* parabolic limits (solver.go:379-419), by the sky of the tracklet
solveAngleRange(t) == arc.sky.range[DBand(t.d)]

SearchAngles ==
    /\ At("searchAngles", "enter")
    /\ LET r == solveAngleRange(tk)
       IN  IF ~r.ok
           THEN /\ stack' = Pop
                /\ ret' = FALSE
           ELSE /\ Len(stack) < MaxDepth
                /\ stack' = Call("promote", Frame("aRange", r.ang1, r.ang2, 0))
                /\ UNCHANGED ret
    /\ UNCHANGED <<cfg, arcCh, history, arc, tk, rnd, phase, promoted, saCalls>>

\* the first condition of the promotion loop without its test of the
\* tracklet-scope tag
InClassAtDistance(s, i) == i \in s.dInClass

\* the two conditions of the promotion loop
NewInClass(s, i) == i \in s.dInClass /\ i \notin s.tagInClass

NewNonClass(s, i) == i \in s.dNonClass /\ i \notin s.tagNonClass

\* the loop body for bin i and one class: s is tk.cs[cx], c the class
PromoteClass(s, c, i) ==
    LET s1 == IF NewInClass(s, i)
              THEN [s EXCEPT !.tagInClass = @ \cup {i},
                             !.sumAllInClass = FAdd(@, solver.all.Class[c][i]),
                             !.sumUnkInClass = FAdd(@, solver.unk.Class[c][i])]
              ELSE s
    IN  IF NewNonClass(s1, i)
        THEN [s1 EXCEPT !.tagNonClass = @ \cup {i},
                        !.sumAllNonClass =
                            FAdd(@, FSub(solver.all.SS[i], solver.all.Class[c][i])),
                        !.sumUnkNonClass =
                            FAdd(@, FSub(solver.unk.SS[i], solver.unk.Class[c][i]))]
        ELSE s1

\* "for i, dt := range tk.dTag", the bins in the order the map yields them
RECURSIVE PromoteLoop(_, _)
PromoteLoop(cs, order) ==
    IF order = <<>> THEN cs
    ELSE PromoteLoop([cx \in DOMAIN cs |->
                         PromoteClass(cs[cx], solver.classCompute[cx], Head(order))],
                     Tail(order))

\* the orders in which a Go map with key set S may be ranged over
MapOrders(S) ==
    { o \in [1 .. Cardinality(S) -> S] : \A i, j \in DOMAIN o : i # j => o[i] # o[j] }

\* the promotions the loop makes, counted
CountPromotions(cs, dTag) ==
    [t \in DOMAIN promoted |->
        promoted[t] +
        IF t[3] \in dTag /\ ( \/ t[2] = "in" /\ NewInClass(cs[t[1]], t[3])
                              \/ t[2] = "non" /\ NewNonClass(cs[t[1]], t[3]) )
        THEN 1 ELSE 0]

\* after aRange: return false if nothing was tagged at this distance, else
\* promote the distance-scope tags and return newTag
SearchAnglesPromote ==
    /\ At("searchAngles", "promote")
    /\ IF ~tk.dAnyTag
       THEN /\ ret' = FALSE
            /\ UNCHANGED <<tk, promoted>>
       ELSE /\ \E order \in MapOrders(tk.dTag) :
                   tk' = [tk EXCEPT !.cs = PromoteLoop(tk.cs, order)]
            /\ ret' = (\E i \in tk.dTag, cx \in DOMAIN tk.cs :
                           NewInClass(tk.cs[cx], i) \/ NewNonClass(tk.cs[cx], i))
            /\ promoted' = CountPromotions(tk.cs, tk.dTag)
    /\ stack' = Pop
    /\ UNCHANGED <<cfg, arcCh, history, arc, rnd, phase, saCalls>>

(***************************************************************************)
(* aRange and tagAngle (solver.go:437-514).  Frame fields: d1 and d2 are   *)
(* ang1 and ang2, mid the local of that name.                              *)
(***************************************************************************)
\* The first half of tagAngle: the orbit solved at angle an and its bin.
\* ok is false where tagAngle returns false before it tags: AeiHv gave no
\* orbit, or the orbit is not in the model.
solveOrbit(t, an) ==
    LET o == AeiHv(arc.sky.sv[DBand(t.d)][ABand(an)])
        q == IF o.e = NaN THEN NaN ELSE (o.a * (100 - o.e)) \div 100
        b == Qei(q, o.e, o.i)
    IN  [ok |-> o.ok /\ b.inModel, q |-> q, e |-> o.e, i |-> o.i,
         bx |-> Mx(b.qx, b.ex, b.ix, t.hmagBin)]

\* The second half of tagAngle, the loop over the classes and what follows:
\* the workspace after the call and the value returned.
tagOrbit(t, orb) ==
    LET inClass(cx) == IsClass(solver.classCompute[cx], orb.q, orb.e, orb.i, t.hmag)
        newIn == { cx \in DOMAIN t.cs : inClass(cx) /\ orb.bx \notin t.cs[cx].dInClass }
        newNon == { cx \in DOMAIN t.cs :
                      ~inClass(cx) /\ orb.bx \notin t.cs[cx].dNonClass }
        newTag == newIn \cup newNon # {}
    IN  IF ~orb.ok THEN [tk |-> t, newTag |-> FALSE]
        ELSE [tk |-> [t EXCEPT
                        !.cs = [cx \in DOMAIN t.cs |->
                                   IF cx \in newIn
                                   THEN [t.cs[cx] EXCEPT !.dInClass = @ \cup {orb.bx}]
                                   ELSE IF cx \in newNon
                                   THEN [t.cs[cx] EXCEPT !.dNonClass = @ \cup {orb.bx}]
                                   ELSE t.cs[cx]],
                        !.dAnyTag = @ \/ newTag,
                        !.dTag = IF newTag THEN @ \cup {orb.bx} ELSE @],
              newTag |-> newTag]

\* mid = ang1 + d3 + d3*rnd with d3 = (ang2 - ang1)/3 and rnd = v/8
MidAngle(ang1, ang2, v) == ang1 + ((ang2 - ang1) * (8 + v)) \div 24

\* a range test that every range passes
AnyAngleWide(ang1, ang2) == ang2 - ang1 >= 0

\* an age criterion without the limit
AnyAge(age) == age >= 0

\* The age criterion of dRange and aRange: a range whose end points were
\* searched less than ageLimit levels after a bin was tagged is worth
\* splitting again.
Recent(age) == age < ageLimit

\* d3 > minAngleStep
WideAngle(ang1, ang2) == ang2 - ang1 > 3 * minAngleStep

\* entry: mid, tagAngle, and the first recursive call if there is one.  The
\* locals are bound one after another: x the generator's result, f the
\* frame, mid, orb and ta the two halves of tagAngle(mid).
ARange ==
    /\ At("aRange", "enter")
    /\ \E x \in Float64(rnd) : \E f \in {Top} :
       \E mid \in {MidAngle(f.d1, f.d2, x.v)} :
       \E orb \in {solveOrbit(tk, mid)} : \E ta \in {tagOrbit(tk, orb)} :
         /\ rnd' = x.g
         /\ tk' = ta.tk
         /\ IF ta.newTag \/ WideAngle(f.d1, f.d2)
            THEN /\ Len(stack) < MaxDepth
                 /\ stack' = Append([stack EXCEPT ![Len(stack)] =
                                        [f EXCEPT !.pc = "second", !.mid = mid, !.age = 0]],
                                    Frame("aRange", f.d1, mid, 0))
            ELSE IF Recent(f.age)
            THEN /\ Len(stack) < MaxDepth
                 /\ stack' = Append([stack EXCEPT ![Len(stack)] =
                                        [f EXCEPT !.pc = "second", !.mid = mid,
                                                  !.age = f.age + 1]],
                                    Frame("aRange", f.d1, mid, f.age + 1))
            ELSE stack' = Pop
    /\ UNCHANGED <<cfg, arcCh, history, arc, ret, phase, promoted, saCalls>>

\* the second recursive call; the frame's age field holds the age passed on
ARangeSecond ==
    /\ At("aRange", "second")
    /\ Len(stack) < MaxDepth
    /\ stack' = Call("return", Frame("aRange", Top.mid, Top.d2, Top.age))
    /\ UNCHANGED <<cfg, arcCh, history, arc, tk, rnd, ret, phase, promoted, saCalls>>

ARangeReturn ==
    /\ At("aRange", "return")
    /\ stack' = Pop
    /\ UNCHANGED <<cfg, arcCh, history, arc, tk, rnd, ret, phase, promoted, saCalls>>

(***************************************************************************)
(* dRange (solver.go:325-338).  Frame fields: d1, d2, age, mid = dmid.     *)
(***************************************************************************)
\* entry: dmid and the call of searchDistance(dmid)
DRange ==
    /\ At("dRange", "enter")
    /\ Len(stack) < MaxDepth
    /\ LET dmid == (Top.d1 + Top.d2) \div 2
       IN  stack' = Append([stack EXCEPT ![Len(stack)] =
                               [@ EXCEPT !.pc = "searched", !.mid = dmid]],
                           Frame("searchDistance", dmid, 0, 0))
    /\ UNCHANGED <<cfg, arcCh, history, arc, tk, rnd, ret, phase, promoted, saCalls>>

\* after searchDistance: the first recursive call if there is one
DRangeSearched ==
    /\ At("dRange", "searched")
    /\ LET f == Top
       IN  IF ret \/ f.d2 - f.d1 > minDistanceStep
           THEN /\ Len(stack) < MaxDepth
                /\ stack' = Append([stack EXCEPT ![Len(stack)] =
                                       [f EXCEPT !.pc = "second", !.age = 0]],
                                   Frame("dRange", f.d1, f.mid, 0))
           ELSE IF Recent(f.age)
           THEN /\ Len(stack) < MaxDepth
                /\ stack' = Append([stack EXCEPT ![Len(stack)] =
                                       [f EXCEPT !.pc = "second", !.age = f.age + 1]],
                                   Frame("dRange", f.d1, f.mid, f.age + 1))
           ELSE stack' = Pop
    /\ UNCHANGED <<cfg, arcCh, history, arc, tk, rnd, ret, phase, promoted, saCalls>>

DRangeSecond ==
    /\ At("dRange", "second")
    /\ Len(stack) < MaxDepth
    /\ stack' = Call("return", Frame("dRange", Top.mid, Top.d2, Top.age))
    /\ UNCHANGED <<cfg, arcCh, history, arc, tk, rnd, ret, phase, promoted, saCalls>>

DRangeReturn ==
    /\ At("dRange", "return")
    /\ stack' = Pop
    /\ UNCHANGED <<cfg, arcCh, history, arc, tk, rnd, ret, phase, promoted, saCalls>>

Next ==
    \/ Solve
    \/ Score
    \/ ScoreSearchMax
    \/ ScoreDRange
    \/ ScoreFinal
    \/ SearchDistance
    \/ SearchDistanceLoop
    \/ SearchDistanceNext
    \/ SearchAngles
    \/ SearchAnglesPromote
    \/ ARange
    \/ ARangeSecond
    \/ ARangeReturn
    \/ DRange
    \/ DRangeSearched
    \/ DRangeSecond
    \/ DRangeReturn

Spec == Init /\ [][Next]_vars

\* no call is cut off by the model's depth limit
WithinDepth == Len(stack) < MaxDepth

(***************************************************************************)
(* Properties of the solve.                                                *)
(***************************************************************************)
\* the bin invariant of a histogram
HistOK(m) == \A c \in Classes, x \in Bins : 0 <= m.Class[c][x] /\ m.Class[c][x] <= m.SS[x]

ScoreInRange(v) == 0 <= v /\ v <= 100 * ScoreUnit

\* C1: given histograms all and unk that satisfy the bin invariants
\* 0 <= Class[c][x] <= SS[x], after Solve returns every configured class has
\* 0 <= Raw <= 100 and 0 <= NoId <= 100.
C1_ScoresInRange ==
    (phase = "done" /\ HistOK(solver.all) /\ HistOK(solver.unk)) =>
        \A cx \in DOMAIN tk.classScores :
            /\ ScoreInRange(tk.classScores[cx].Raw)
            /\ ScoreInRange(tk.classScores[cx].NoId)

SumAll(t, cx) == t.cs[cx].sumAllInClass + t.cs[cx].sumAllNonClass

SumUnk(t, cx) == t.cs[cx].sumUnkInClass + t.cs[cx].sumUnkNonClass

\* C3: during a solve, for every configured class, sumAllInClass +
\* sumAllNonClass never decreases from one step to the next, and neither
\* does sumUnkInClass + sumUnkNonClass.
C3_SumsMonotone ==
    [][phase = "solving" /\ phase' = "solving" =>
          \A cx \in DOMAIN tk.cs :
              /\ SumAll(tk', cx) >= SumAll(tk, cx)
              /\ SumUnk(tk', cx) >= SumUnk(tk, cx)]_vars

\* C6: for each configured position with class c, with D = sumAllInClass +
\* sumAllNonClass, Raw is 100*sumAllInClass/D when D > 0, else 100 when
\* c < 2, else 0; NoId follows the same rule with the unk sums.
C6_ScoreFormula ==
    phase = "done" =>
        \A cx \in DOMAIN tk.cs :
            LET c == solver.classCompute[cx]
                s == tk.cs[cx]
                dAll == FAdd(s.sumAllInClass, s.sumAllNonClass)
                dUnk == FAdd(s.sumUnkInClass, s.sumUnkNonClass)
            IN  /\ tk.classScores[cx].Raw =
                       IF dAll > 0 THEN FDiv(FMul(100, s.sumAllInClass), dAll)
                       ELSE IF c < 2 THEN 100 * ScoreUnit ELSE 0
                /\ tk.classScores[cx].NoId =
                       IF dUnk > 0 THEN FDiv(FMul(100, s.sumUnkInClass), dUnk)
                       ELSE IF c < 2 THEN 100 * ScoreUnit ELSE 0

\* a solve that ends with D > 0 for the all sums and D = 0 for the unk sums,
\* for a class below 2 and a class not below 2
C6_AllThreeCases ==
    /\ phase = "done"
    /\ \E cx \in DOMAIN tk.cs :
           /\ solver.classCompute[cx] < 2
           /\ SumAll(tk, cx) > 0 /\ tk.classScores[cx].Raw > 0
           /\ SumUnk(tk, cx) = 0 /\ tk.classScores[cx].NoId = 100 * ScoreUnit
    /\ \E cx \in DOMAIN tk.cs :
           /\ solver.classCompute[cx] >= 2
           /\ SumAll(tk, cx) > 0 /\ tk.classScores[cx].Raw > 0
           /\ SumUnk(tk, cx) = 0 /\ tk.classScores[cx].NoId = 0

\* the search is under way: score has set the observational errors
Searching == phase = "solving" /\ ~At("score", "enter")

\* the configured error that applies to an obscode
ConfiguredErr(qual) ==
    IF qual \in DOMAIN solver.obsErrMap THEN solver.obsErrMap[qual]
    ELSE solver.obsErrDefault

\* the rule of C7 for a measured rms (0.1 arc second) and a configured error
\* def (1e-7 rad); the two are compared in units of 1e-10 rad
ClipRule(rms, def) ==
    IF def = 0 THEN 0
    ELSE IF rms = 0 THEN def
    ELSE IF def * 1000 > rms * 4848 THEN def
    ELSE (rms * 4848) \div 1000

\* C7: clipErr(measuredRms, qualTag), with def = obsErrMap[qualTag] when that
\* entry exists and obsErrDefault otherwise, returns 0 when def = 0, def when
\* def # 0 and measuredRms = 0, and otherwise the greater of def and
\* measuredRms, both taken in the same angular unit.
C7_ClipErr ==
    Searching =>
        /\ tk.firstObsErr = ClipRule(arc.otk.firstRms, ConfiguredErr(arc.otk.qual1))
        /\ tk.lastObsErr = ClipRule(arc.otk.lastRms, ConfiguredErr(arc.otk.qual2))

\* both endpoints have a measured rms and a configured error; the configured
\* error is the greater at one, the measured rms at the other
C7_BothWays ==
    /\ Searching
    /\ arc.otk.firstRms # 0 /\ arc.otk.lastRms # 0
    /\ tk.firstObsErr = ConfiguredErr(arc.otk.qual1)
    /\ tk.lastObsErr > ConfiguredErr(arc.otk.qual2)
    /\ ConfiguredErr(arc.otk.qual2) > 0

\* C8 as stated: any tracklet solved by a solver configured with
\* obsErrDefault = 0 has noObsErr = true during its search.
C8_DefaultZero == (Searching /\ solver.obsErrDefault = 0) => tk.noObsErr

\* C8: noObsErr is set iff both clipped endpoint errors are zero; a solver
\* configured with obsErrDefault = 0 has noObsErr = true during the search of
\* a tracklet when obsErrMap has no nonzero entry for the obscode of either
\* endpoint.
C8_DefaultZeroNoSiteErr ==
    Searching =>
        /\ tk.noObsErr <=> (tk.firstObsErr = 0 /\ tk.lastObsErr = 0)
        /\ ( /\ solver.obsErrDefault = 0
             /\ \A q \in {arc.otk.qual1, arc.otk.qual2} :
                    q \in DOMAIN solver.obsErrMap => solver.obsErrMap[q] = 0 )
           => tk.noObsErr

\* obsErrDefault = 0, a measured rms at both endpoints, and noObsErr set
C8_ZeroWins ==
    /\ Searching
    /\ solver.obsErrDefault = 0
    /\ arc.otk.firstRms # 0 /\ arc.otk.lastRms # 0
    /\ tk.noObsErr

Offsets == {-1, 0, 1} \X {-1, 0, 1}

\* searchDistance is returning
SearchDistanceReturns ==
    At("searchDistance", "called") /\ Len(stack') < Len(stack)

\* C20: searchDistance returns true exactly when the call added a bin to
\* the tagInClass or tagNonClass of some class; it returns false when no
\* orbit was binned at this distance.
C20_TrueIffNewTag ==
    [][SearchDistanceReturns =>
          /\ ret' = (TrackletTags(tk) \ Top.tags # {})
          /\ tk.dTag = {} => ~ret']_vars

\* searchDistance is about to return true from its ninth call of
\* searchAngles, which found nothing new after an earlier one had
C20_NewThenNothing ==
    /\ At("searchDistance", "called")
    /\ Top.ri = 1 /\ Top.di = 1
    /\ Top.newTag /\ ~ret
    /\ TrackletTags(tk) \ Top.tags # {}

\* searchDistance is about to return false with bins reached at this
\* distance, all of them tagged at other distances
C20_AllSeenBefore ==
    /\ At("searchDistance", "called")
    /\ tk.noObsErr \/ LastOffset(Top.ri, Top.di)
    /\ ~Top.newTag /\ ~ret
    /\ tk.dTag # {}
    /\ TrackletTags(tk) = Top.tags

\* C9: when noObsErr is true every call of searchDistance invokes
\* searchAngles exactly once; when it is false, exactly nine times, once for
\* each offset (rx, dx) in {-1,0,1} x {-1,0,1}.
C9_SearchAnglesCalls ==
    [][SearchDistanceReturns =>
          IF tk.noObsErr THEN Len(saCalls) = 1
          ELSE /\ Len(saCalls) = 9
               /\ \A o \in Offsets : \E k \in 1 .. 9 : saCalls[k] = o]_vars

\* searchDistance is about to return after nine calls, with noObsErr false
C9_NineCalls ==
    /\ At("searchDistance", "called")
    /\ ~tk.noObsErr
    /\ Len(saCalls) = 9
    /\ Top.ri = 1 /\ Top.di = 1

(***************************************************************************)
(* Termination: the solve with a generator that may return any value.      *)
(***************************************************************************)
\* the histograms of one synthetic NEO and an empty catalogue
LiveHistogram ==
    [all |-> MukAll(CountOrbits(NewModel, <<[q |-> 90, e |-> 10, i |-> 5, h |-> 224]>>),
                    NewModel),
     unk |-> MukUnk(CountOrbits(NewModel, <<[q |-> 90, e |-> 10, i |-> 5, h |-> 224]>>),
                    NewModel)]

InitLive ==
    /\ \E h \in Histograms, oe \in ObsErrConfigs, cc \in ClassComputes :
           /\ h = LiveHistogram
           /\ oe.obsErrDefault = 0 /\ oe.obsErrMap = NoObsErrMap
           /\ solver = [all |-> h.all, unk |-> h.unk, classCompute |-> cc,
                        obsErrMap |-> oe.obsErrMap, obsErrDefault |-> oe.obsErrDefault]
    /\ muk = NoMuk
    /\ repeatable = FALSE
    /\ \E a \in Arcs : a.otk.firstRms = 0 /\ arcCh = <<a>>
    /\ history = <<>>
    /\ arc = NoArc
    /\ tk = newTracklet(solver)
    /\ rnd = NewRand(repeatable)
    /\ stack = <<>>
    /\ ret = FALSE
    /\ phase = "idle"
    /\ promoted = NoPromotions(solver.classCompute)
    /\ saCalls = <<>>
    /\ drv = NoDrv
    /\ probe = NoProbe

\* score runs in one goroutine, which keeps running until it returns
SpecLive == InitLive /\ [][Next]_vars /\ WF_vars(Next)

\* C4: the recursive search always terminates: for every tracklet, every
\* sequence of generator values in [0,1) and every bin model, dRange and each
\* aRange make only finitely many recursive calls; the solve that started
\* ends, and no call is cut off by the depth limit of the model.
C4_Terminates == []WithinDepth /\ ((phase = "solving") ~> (phase = "done"))

\* a solve with arbitrary generator values has ended, having tagged bins in
\* and out of a class
C4_Recursed ==
    /\ phase = "done"
    /\ ~repeatable
    /\ \E cx \in DOMAIN tk.cs : tk.cs[cx].tagInClass # {} /\ tk.cs[cx].tagNonClass # {}

(***************************************************************************)
(* muk as a state machine (muk.go:236-375): s3m is read, the catalogue is  *)
(* read orbit by orbit into known, then all and unk are built bin by bin.  *)
(***************************************************************************)
InitMuk ==
    /\ \E so \in OrbitLists(MaxS3m) :
           muk = [s3m |-> CountOrbits(NewModel, so), known |-> NewModel,
                  all |-> NewModel, unk |-> NewModel, nRead |-> 0, x |-> 0,
                  pc |-> "read"]
    /\ solver = [all |-> NewModel, unk |-> NewModel, classCompute |-> <<1, 2>>,
                 obsErrMap |-> NoObsErrMap, obsErrDefault |-> 0]
    /\ repeatable = TRUE
    /\ arcCh = <<>>
    /\ history = <<>>
    /\ arc = NoArc
    /\ tk = newTracklet(solver)
    /\ rnd = NewRand(repeatable)
    /\ stack = <<>>
    /\ ret = FALSE
    /\ phase = "idle"
    /\ promoted = NoPromotions(solver.classCompute)
    /\ saCalls = <<>>
    /\ drv = NoDrv
    /\ probe = NoProbe

solveVars == <<solver, repeatable, arcCh, history, arc, tk, rnd, stack, ret, phase,
               promoted, saCalls, drv, probe>>

\* one usable line of the catalogue (muk.go:299-313)
MukCountKnown ==
    /\ muk.pc = "read"
    /\ muk.nRead < MaxKnown
    /\ \E o \in Orbits :
           muk' = [muk EXCEPT !.known = CountOrbit(@, o), !.nRead = @ + 1]
    /\ UNCHANGED solveVars

\* the end of the catalogue
MukEndOfFile ==
    /\ muk.pc = "read"
    /\ muk' = [muk EXCEPT !.pc = "build"]
    /\ UNCHANGED solveVars

\* one pass of the innermost loop (muk.go:351-372): bin x of all and unk
MukBuildBin ==
    /\ muk.pc = "build"
    /\ LET x == muk.x
       IN  muk' = [muk EXCEPT
                     !.all = [SS |-> [@.SS EXCEPT ![x] = MukSS(muk.s3m, muk.known, x).all],
                              Class |-> [c \in Classes |->
                                  [@.Class[c] EXCEPT
                                      ![x] = MukClass(muk.s3m, muk.known, c, x).all]]],
                     !.unk = [SS |-> [@.SS EXCEPT ![x] = MukSS(muk.s3m, muk.known, x).unk],
                              Class |-> [c \in Classes |->
                                  [@.Class[c] EXCEPT
                                      ![x] = MukClass(muk.s3m, muk.known, c, x).unk]]],
                     !.x = x + 1,
                     !.pc = IF x + 1 = MSize THEN "done" ELSE "build"]
    /\ UNCHANGED solveVars

NextMuk ==
    \/ MukCountKnown
    \/ MukEndOfFile
    \/ MukBuildBin

SpecMuk == InitMuk /\ [][NextMuk]_vars

\* C10: the two histograms muk produces from a binned model s3m (with
\* s3m.Class[c][x] <= s3m.SS[x]) and any catalogue of known orbits satisfy,
\* for every bin x and class c, 0 <= Class[c][x] <= SS[x] in both all and
\* unk, and 0 <= unk.SS[x] <= all.SS[x].
C10_MukInvariants ==
    (muk.pc = "done" /\ HistOK(muk.s3m)) =>
        /\ HistOK(muk.all)
        /\ HistOK(muk.unk)
        /\ \A x \in Bins : 0 <= muk.unk.SS[x] /\ muk.unk.SS[x] <= muk.all.SS[x]

\* the part of C10 that holds: all, and the populations of unk
MukAllOK ==
    muk.pc = "done" =>
        /\ HistOK(muk.all)
        /\ \A x \in Bins : 0 <= muk.unk.SS[x] /\ muk.unk.SS[x] <= muk.all.SS[x]
        /\ \A c \in Classes, x \in Bins : 0 <= muk.unk.Class[c][x]
        /\ muk.all = MukAll(muk.s3m, muk.known)
        /\ muk.unk = MukUnk(muk.s3m, muk.known)

(***************************************************************************)
(* Repeatable mode: one worker solves the same tracklet twice.             *)
(***************************************************************************)
\* a synthetic population with orbits in four bins: two NEOs, four Mars
\* crossers (three faint, one bright) and a bright main-belt orbit
RepOrbits ==
    << [q |-> 90, e |-> 10, i |-> 5, h |-> 224],
       [q |-> 90, e |-> 10, i |-> 5, h |-> 224],
       [q |-> 162, e |-> 10, i |-> 5, h |-> 224],
       [q |-> 162, e |-> 10, i |-> 5, h |-> 224],
       [q |-> 162, e |-> 10, i |-> 5, h |-> 224],
       [q |-> 162, e |-> 10, i |-> 5, h |-> 180],
       [q |-> 225, e |-> 10, i |-> 5, h |-> 180] >>

\* a tracklet that is an NEO or a Mars crosser if near and faint, a Mars
\* crosser or a main-belt object if far and bright
RepSky ==
    [hmag |-> <<224, 180>>, range |-> <<WideRange, WideRange>>,
     sv |-> << <<SvNeo, SvMc>>, <<SvMc, SvMb>> >>]

InitRep ==
    /\ muk = NoMuk
    /\ \E oe \in ObsErrConfigs, cc \in ClassComputes :
           solver = [all |-> MukAll(CountOrbits(NewModel, RepOrbits), NewModel),
                     unk |-> MukUnk(CountOrbits(NewModel, RepOrbits), NewModel),
                     classCompute |-> cc,
                     obsErrMap |-> oe.obsErrMap, obsErrDefault |-> oe.obsErrDefault]
    /\ repeatable = TRUE
    /\ \E o \in Otks : arcCh = <<[otk |-> o, sky |-> RepSky], [otk |-> o, sky |-> RepSky]>>
    /\ history = <<>>
    /\ arc = NoArc
    /\ tk = newTracklet(solver)
    /\ rnd = NewRand(repeatable)
    /\ stack = <<>>
    /\ ret = FALSE
    /\ phase = "idle"
    /\ promoted = NoPromotions(solver.classCompute)
    /\ saCalls = <<>>
    /\ drv = NoDrv
    /\ probe = NoProbe

SpecRep == InitRep /\ [][Next]_vars

\* C5: in repeatable mode the generator is reset to the seed 3 before each
\* tracklet, and two solves of the same tracklet with the same histograms
\* yield identical scores, whatever the worker solved before.
C5_Repeatable ==
    repeatable =>
        \A j, k \in DOMAIN history :
            history[j].arc = history[k].arc =>
                history[j].classScores = history[k].classScores

\* the part of C5 that holds: every solve starts from the seed 3
SeededEachSolve ==
    [][phase' = "solving" /\ phase # "solving" => rnd' = [lcg |-> TRUE, r |-> LcgSeed]]_vars

(***************************************************************************)
(* The driver (Main, part_005:34-141; mcc.go main:161-271): readConfig,    *)
(* the splitter with sendValid, the dispatcher, the worker starter, the    *)
(* workers and the print loop.  An arc is named by its position in the     *)
(* observation file; the line a worker builds for it starts with its       *)
(* designation and is named by the same position.                          *)
(***************************************************************************)
\* runtime.GOMAXPROCS(0)
maxWorkers == 2

\* candidates in the observation file
MaxArcs == 2

\* the observatory codes of the obscode file
ocdMap == {"F51", "703"}

\* CList[cx].Abbr
ClassAbbr == <<"Int", "NEO", "N22", "N18", "MC">>

\* obserr values of a configuration line, in 0.1 arc second
ObsErrValues == {10, 100, 101}

\* the lines of a configuration file the code tells apart
ConfigLines ==
    {[k |-> "repeatable"], [k |-> "random"], [k |-> "poss"]}
    \cup [k : {"class"}, name : {"NEO", "XYZ"}]
    \cup [k : {"obserr"}, site : {"", "F51", "ZZZ"}, oe : ObsErrValues]

\* readConfig's variables before the first line (part_005:381-394)
ConfigDefault ==
    [err |-> FALSE, classSpec |-> FALSE, classPossible |-> TRUE,
     classColumn |-> <<0, 1, 2, 3>>, classCompute |-> <<0, 1, 2, 3, 4>>,
     repeatable |-> FALSE, obsErrMap |-> NoObsErrMap,
     obsErrDefault |-> ArcsecToRad(10)]

\* a limit that lets 10.1 arc seconds through
ObsErrOverLax(oe) == oe > 1000

\* oe > 10 (arc seconds)
ObsErrOver(oe) == oe > 100

\* parseObsErr (part_005:405-430): c with the error flag set, or with the
\* default or the site's entry replaced
parseObsErr(c, site, oe) ==
    IF ObsErrOver(oe) THEN [c EXCEPT !.err = TRUE]
    ELSE IF site = "" THEN [c EXCEPT !.obsErrDefault = ArcsecToRad(oe)]
    ELSE IF site \notin ocdMap THEN [c EXCEPT !.err = TRUE]
    ELSE [c EXCEPT !.obsErrMap =
              [q \in DOMAIN c.obsErrMap \cup {site} |->
                  IF q = site THEN ArcsecToRad(oe) ELSE c.obsErrMap[q]]]

\* the class-name branch (part_005:501-512)
ConfigClass(c, name) ==
    IF \E cx \in DOMAIN ClassAbbr : ClassAbbr[cx] = name
    THEN LET cx == CHOOSE x \in DOMAIN ClassAbbr : ClassAbbr[x] = name
             col == IF c.classSpec THEN c.classColumn ELSE <<>>
         IN  [c EXCEPT !.classSpec = TRUE,
                       !.classPossible = IF c.classSpec THEN @ ELSE FALSE,
                       !.classColumn = Append(col, cx - 1)]
    ELSE [c EXCEPT !.err = TRUE]

\* one line of the file (part_005:451-512)
ConfigLine(c, l) ==
    CASE l.k = "repeatable" -> [c EXCEPT !.repeatable = TRUE]
      [] l.k = "random" -> [c EXCEPT !.repeatable = FALSE]
      [] l.k = "poss" ->
            [c EXCEPT !.classSpec = TRUE, !.classPossible = TRUE,
                      !.classColumn = IF c.classSpec THEN @ ELSE <<>>]
      [] l.k = "obserr" -> parseObsErr(c, l.site, l.oe)
      [] OTHER -> ConfigClass(c, l.name)

\* readConfig's loop (part_005:433-513): stops at the first rejected line
\* (exit.Log), at end of file settles classCompute
RECURSIVE readConfig(_, _)
readConfig(lines, c) ==
    IF c.err THEN c
    ELSE IF lines = <<>>
    THEN IF c.classSpec /\ ~c.classPossible
         THEN [c EXCEPT !.classCompute = c.classColumn] ELSE c
    ELSE readConfig(Tail(lines), ConfigLine(c, Head(lines)))

\* an observation: time, right ascension, declination
Ob(t, ra, dec) == [MJD |-> t, RA |-> ra, Dec |-> dec]

\* the candidate arcs of an observation file: their observations
Candidates ==
    { <<Ob(1, 0, 0)>>,
      <<Ob(1, 0, 0), Ob(2, 1, 0)>>,
      <<Ob(0, 0, 0), Ob(2, 1, 0)>>,
      <<Ob(2, 0, 0), Ob(1, 0, 1)>>,
      <<Ob(1, 0, 0), Ob(1, 0, 1)>>,
      <<Ob(1, 1, 0), Ob(2, 1, 0)>>,
      <<Ob(1, 0, 0), Ob(2, 1, 0), Ob(3, 0, 0)>>,
      <<Ob(1, 0, 0), Ob(2, 0, 0), Ob(3, 0, 1)>> }

\* what the arc splitter s() yields before the end of the file: a candidate
\* arc, or an ArcError
ArcError == [err |-> TRUE, Obs |-> <<>>]

Items == {[err |-> FALSE, Obs |-> c] : c \in Candidates} \cup {ArcError}

\* the time loop of sendValid accepting observations that do not advance
TimesNotBefore(obs, k, t0) ==
    \A j \in k .. Len(obs) : obs[j].MJD >= (IF j = 1 THEN t0 ELSE obs[j - 1].MJD)

\* the time loop of sendValid (part_005:175-181): t0 starts at 0, every
\* time must exceed the one before
RECURSIVE TimesIncrease(_, _, _)
TimesIncrease(obs, k, t0) ==
    IF k > Len(obs) THEN TRUE
    ELSE IF obs[k].MJD <= t0 THEN FALSE
    ELSE TimesIncrease(obs, k + 1, obs[k].MJD)

\* sendValid (part_005:169-193): TRUE when the arc is sent on arcCh
sendValid(obs) ==
    IF Len(obs) < 2 THEN FALSE
    ELSE IF ~TimesIncrease(obs, 1, 0) THEN FALSE
    ELSE LET first == obs[1]
             last == obs[Len(obs)]
         IN  ~(first.RA = last.RA /\ first.Dec = last.Dec)

\* d2solver.New (solver.go:25-28)
New(all, unk, classCompute, obsErrMap, obsErrDefault) ==
    [all |-> all, unk |-> unk, classCompute |-> classCompute,
     obsErrMap |-> obsErrMap, obsErrDefault |-> obsErrDefault]

\* before d2solver.New has been called
NoSolver == [constructed |-> FALSE]

NoTracklet == [solver |-> NoSolver]

\* a worker goroutine that the starter has not started
NoWorker == [pc |-> "none", a |-> 0, tk |-> 0]

\* the observation files: what s() yields, then io.EOF or a read error
ObsFiles == UNION { [1 .. n -> Items] : n \in 0 .. MaxArcs }

\* Main entered with a configuration file and an observation file
Driver(config, file, fileEnd) ==
    [pc |-> "config", config |-> config, file |-> file, fileEnd |-> fileEnd,
     next |-> 1,            \* the item s() yields next
     splitter |-> "read",   \* "read", "send" (at arcCh <-), "err" (at errCh <-),
                            \* "closed" (arcCh closed)
     held |-> 0,            \* the arc the splitter is sending
     disp |-> "recv",       \* dispatcher: "recv", "queue" (at arcChSeq <-),
                            \* "ticket" (at prCh <-), "done" (prCh closed)
     dheld |-> 0,           \* the arc the dispatcher holds, with its rch
     started |-> 0,         \* n of the worker starter
     workers |-> [w \in 1 .. maxWorkers |-> NoWorker],
     rch |-> [a \in 1 .. Len(file) |-> "empty"],   \* the return channels
     prCh |-> <<>>,         \* the tickets queued for printing
     main |-> "select",     \* the print loop: at the outer or the inner select
     mheld |-> 0,           \* the ticket the print loop waits on
     out |-> <<>>,          \* the lines printed
     done |-> <<>>,         \* history: the arcs in the order workers finished
     nAlloc |-> 0,          \* tracklet workspaces allocated so far
     created |-> [a \in 1 .. Len(file) |-> 0],   \* the workspace of each Solve
     writes |-> [a \in 1 .. Len(file) |-> {}]]   \* what each Solve has written

\* everything but the driver, the solver and the repeatable flag
drvRest == <<muk, arcCh, history, arc, tk, rnd, stack, ret, phase, promoted,
             saCalls, probe>>

InitDrv ==
    /\ muk = NoMuk
    /\ solver = NoSolver
    /\ repeatable = FALSE
    /\ arcCh = <<>>
    /\ history = <<>>
    /\ arc = NoArc
    /\ tk = NoTracklet
    /\ rnd = NewRand(FALSE)
    /\ stack = <<>>
    /\ ret = FALSE
    /\ phase = "idle"
    /\ promoted = NoPromotions(<<>>)
    /\ saCalls = <<>>
    /\ \E file \in ObsFiles, fileEnd \in {"EOF", "err"} :
           drv = Driver(<<>>, file, fileEnd)
    /\ probe = NoProbe

Running == drv.pc = "running"

\* Main, lines 39-50: readModel, readConfig, d2solver.New; exit.Log on a
\* rejected configuration line
ReadConfig ==
    /\ drv.pc = "config"
    /\ \E c \in {readConfig(drv.config, ConfigDefault)} :
           IF c.err
           THEN /\ drv' = [drv EXCEPT !.pc = "exit"]
                /\ UNCHANGED <<solver, repeatable>>
           ELSE /\ solver' = New(LiveHistogram.all, LiveHistogram.unk,
                                 c.classCompute, c.obsErrMap, c.obsErrDefault)
                /\ repeatable' = c.repeatable
                /\ drv' = [drv EXCEPT !.pc = "running"]
    /\ UNCHANGED drvRest

\* splitter: s() yields an arc, which sendValid drops or sends
SplitterArc ==
    /\ Running /\ drv.splitter = "read" /\ drv.next <= Len(drv.file)
    /\ ~drv.file[drv.next].err
    /\ drv' = IF sendValid(drv.file[drv.next].Obs)
              THEN [drv EXCEPT !.splitter = "send", !.held = drv.next,
                               !.next = @ + 1]
              ELSE [drv EXCEPT !.next = @ + 1]
    /\ UNCHANGED <<solver, repeatable, drvRest>>

\* splitter: s() yields an ArcError: continue
SplitterArcError ==
    /\ Running /\ drv.splitter = "read" /\ drv.next <= Len(drv.file)
    /\ drv.file[drv.next].err
    /\ drv' = [drv EXCEPT !.next = @ + 1]
    /\ UNCHANGED <<solver, repeatable, drvRest>>

\* splitter: io.EOF: break, close(arcCh)
SplitterEOF ==
    /\ Running /\ drv.splitter = "read" /\ drv.next > Len(drv.file)
    /\ drv.fileEnd = "EOF"
    /\ drv' = [drv EXCEPT !.splitter = "closed"]
    /\ UNCHANGED <<solver, repeatable, drvRest>>

\* a splitter that does not wait at errCh <- err and goes on to close(arcCh)
SplitterErrNoWait ==
    /\ Running /\ drv.splitter = "read" /\ drv.next > Len(drv.file)
    /\ drv.fileEnd = "err"
    /\ drv' = [drv EXCEPT !.splitter = "closed"]
    /\ UNCHANGED <<solver, repeatable, drvRest>>

\* splitter: another error: errCh <- err, which blocks until Main receives
SplitterErr ==
    /\ Running /\ drv.splitter = "read" /\ drv.next > Len(drv.file)
    /\ drv.fileEnd = "err"
    /\ drv' = [drv EXCEPT !.splitter = "err"]
    /\ UNCHANGED <<solver, repeatable, drvRest>>

\* dispatcher: for a := range arcChIn, the unbuffered channel handing the
\* splitter's arc over; rch := make(chan string, 1)
DispatcherRecv ==
    /\ Running /\ drv.splitter = "send" /\ drv.disp = "recv"
    /\ drv' = [drv EXCEPT !.splitter = "read", !.held = 0,
                          !.disp = "queue", !.dheld = drv.held]
    /\ UNCHANGED <<solver, repeatable, drvRest>>

\* dispatcher: arcChIn is closed: close(prCh)
DispatcherClose ==
    /\ Running /\ drv.splitter = "closed" /\ drv.disp = "recv"
    /\ drv' = [drv EXCEPT !.disp = "done"]
    /\ UNCHANGED <<solver, repeatable, drvRest>>

\* arcChSeq <- &arcSeq{a, rch} received by the worker starter, which starts
\* a worker with it: go solve(solver, a, arcChSeq, repeatable, opt)
StartWorker ==
    /\ Running /\ drv.disp = "queue" /\ drv.started < maxWorkers
    /\ drv' = [drv EXCEPT !.disp = "ticket", !.started = @ + 1,
                          !.workers[drv.started + 1] =
                              [pc |-> "solve", a |-> drv.dheld, tk |-> 0]]
    /\ UNCHANGED <<solver, repeatable, drvRest>>

\* arcChSeq <- &arcSeq{a, rch} received by a worker at a = <-arcCh
WorkerRecv(w) ==
    /\ Running /\ drv.disp = "queue" /\ drv.workers[w].pc = "idle"
    /\ drv' = [drv EXCEPT !.disp = "ticket",
                          !.workers[w] = [pc |-> "solve", a |-> drv.dheld, tk |-> 0]]
    /\ UNCHANGED <<solver, repeatable, drvRest>>

\* the ticket queued at the front, as a stack would
QueueFirst(q, rch) == <<rch>> \o q

\* prCh <- rch: the ticket queued behind those waiting
QueueLast(q, rch) == Append(q, rch)

\* dispatcher: prCh <- rch, a channel buffered for 2*maxWorkers tickets
DispatcherTicket ==
    /\ Running /\ drv.disp = "ticket" /\ Len(drv.prCh) < 2 * maxWorkers
    /\ drv' = [drv EXCEPT !.disp = "recv", !.prCh = QueueLast(@, drv.dheld),
                          !.dheld = 0]
    /\ UNCHANGED <<solver, repeatable, drvRest>>

\* a workspace every Solve shares
SharedTracklet(n) == 1

\* newTracklet allocates: the address of the n+1st workspace
FreshTracklet(n) == n + 1

\* worker: rnd.Seed(3) if repeatable, vmag, then Solve: tk := s.newTracklet
WorkerSolve(w) ==
    /\ Running /\ drv.workers[w].pc = "solve"
    /\ \E t \in {FreshTracklet(drv.nAlloc)}, a \in {drv.workers[w].a} :
           drv' = [drv EXCEPT !.workers[w].pc = "score", !.workers[w].tk = t,
                              !.nAlloc = @ + 1, !.created[a] = t,
                              !.writes[a] = IF repeatable THEN {<<"rnd", w>>}
                                            ELSE {}]
    /\ UNCHANGED <<solver, repeatable, drvRest>>

\* worker: tk.score(): writes the fields of tk; aRange, when the search
\* gets there, calls tk.rnd.Float64(), which writes the worker's generator
WorkerScore(w) ==
    /\ Running /\ drv.workers[w].pc = "score"
    /\ \E angles \in BOOLEAN, a \in {drv.workers[w].a} :
           drv' = [drv EXCEPT !.workers[w].pc = "line",
                              !.writes[a] = @ \cup {<<"tk", drv.workers[w].tk>>}
                                  \cup (IF angles THEN {<<"rnd", w>>} ELSE {})]
    /\ UNCHANGED <<solver, repeatable, drvRest>>

\* a worker that goes back to a = <-arcCh without dropping off its line
WorkerResultLost(w) ==
    /\ Running /\ drv.workers[w].pc = "line"
    /\ drv' = [drv EXCEPT !.workers[w].pc = "idle",
                          !.done = Append(@, drv.workers[w].a)]
    /\ UNCHANGED <<solver, repeatable, drvRest>>

\* worker: the output line built and dropped on the arc's return channel,
\* then a = <-arcCh
WorkerResult(w) ==
    /\ Running /\ drv.workers[w].pc = "line"
    /\ drv' = [drv EXCEPT !.workers[w].pc = "idle",
                          !.rch[drv.workers[w].a] = "line",
                          !.done = Append(@, drv.workers[w].a)]
    /\ UNCHANGED <<solver, repeatable, drvRest>>

\* print loop: case rch, ok := <-prCh with a ticket waiting
MainTicket ==
    /\ Running /\ drv.main = "select" /\ drv.prCh # <<>>
    /\ drv' = [drv EXCEPT !.main = "wait", !.mheld = Head(drv.prCh),
                          !.prCh = Tail(@)]
    /\ UNCHANGED <<solver, repeatable, drvRest>>

\* print loop: prCh closed and drained: normal return
MainReturn ==
    /\ Running /\ drv.main = "select" /\ drv.prCh = <<>> /\ drv.disp = "done"
    /\ drv' = [drv EXCEPT !.pc = "return"]
    /\ UNCHANGED <<solver, repeatable, drvRest>>

\* print loop: case r := <-rch: fmt.Println(r)
MainPrint ==
    /\ Running /\ drv.main = "wait" /\ drv.rch[drv.mheld] = "line"
    /\ drv' = [drv EXCEPT !.main = "select", !.out = Append(@, drv.mheld),
                          !.rch[drv.mheld] = "empty", !.mheld = 0]
    /\ UNCHANGED <<solver, repeatable, drvRest>>

\* print loop: case err := <-errCh in either select: exit.Log(err)
MainErr ==
    /\ Running /\ drv.splitter = "err"
    /\ drv' = [drv EXCEPT !.pc = "exit"]
    /\ UNCHANGED <<solver, repeatable, drvRest>>

NextDrv ==
    \/ ReadConfig
    \/ SplitterArc
    \/ SplitterArcError
    \/ SplitterEOF
    \/ SplitterErr
    \/ DispatcherRecv
    \/ DispatcherClose
    \/ StartWorker
    \/ \E w \in 1 .. maxWorkers : WorkerRecv(w)
    \/ DispatcherTicket
    \/ \E w \in 1 .. maxWorkers : WorkerSolve(w)
    \/ \E w \in 1 .. maxWorkers : WorkerScore(w)
    \/ \E w \in 1 .. maxWorkers : WorkerResult(w)
    \/ MainTicket
    \/ MainReturn
    \/ MainPrint
    \/ MainErr

SpecDrv == InitDrv /\ [][NextDrv]_vars

(***************************************************************************)
(* Properties of the driver.                                               *)
(***************************************************************************)
\* the arcs handed to a worker so far
Dispatched == {drv.workers[w].a : w \in 1 .. maxWorkers} \ {0}

\* the arcs for which Solve has been entered
Solved == {a \in 1 .. Len(drv.file) : drv.created[a] # 0}

\* the arcs with a line printed
Printed == {drv.out[k] : k \in 1 .. Len(drv.out)}

\* at least two observations, first time positive, times strictly increasing,
\* not all at one position
Admissible(obs) ==
    /\ Len(obs) >= 2
    /\ obs[1].MJD > 0
    /\ \A k \in 1 .. Len(obs) - 1 : obs[k].MJD < obs[k + 1].MJD
    /\ ~(\A j, k \in 1 .. Len(obs) : obs[j].RA = obs[k].RA /\ obs[j].Dec = obs[k].Dec)

\* C11: a candidate tracklet reaches the solver only if it has at least two
\* observations, its first time is greater than 0, its times are strictly
\* increasing and it shows motion; every other candidate is dropped before
\* the solver is entered and gets no output line.
C11_OnlyValidReachSolver ==
    \A a \in 1 .. Len(drv.file) :
        (a = drv.held \/ a = drv.dheld \/ a \in Dispatched \cup Solved \cup Printed)
            => ~drv.file[a].err /\ Admissible(drv.file[a].Obs)

\* Main has returned having printed a line for one candidate and dropped
\* another, which was read before it
C11_DroppedOne ==
    /\ drv.pc = "return"
    /\ \E a, b \in 1 .. Len(drv.file) :
           /\ a < b
           /\ ~drv.file[a].err /\ ~Admissible(drv.file[a].Obs)
           /\ a \notin Solved \cup Printed
           /\ b \in Solved \cap Printed

\* C12: the driver prints result lines in the order in which the tracklets
\* were read from the input, whatever order the workers finish in; when Main
\* returns every tracklet sent to a worker has its line printed.
C12_SubmissionOrder ==
    /\ \A j, k \in 1 .. Len(drv.out) : j < k => drv.out[j] < drv.out[k]
    /\ drv.pc = "return" => Printed = Solved

\* the worker of the second tracklet finished first, and both lines are out
C12_FinishedOutOfOrder ==
    /\ drv.done = <<2, 1>>
    /\ drv.out = <<1, 2>>

\* the workers inside Solve
InSolve == {w \in 1 .. maxWorkers : drv.workers[w].pc \in {"score", "line"}}

\* no two Solve calls got the same workspace, and two calls running at the
\* same time have written nothing in common
NothingShared ==
    /\ \A a, b \in Solved : a # b => drv.created[a] # drv.created[b]
    /\ \A v, w \in InSolve :
           v # w => drv.writes[drv.workers[v].a] \cap drv.writes[drv.workers[w].a] = {}

\* no step of the running driver modifies the solver's histograms,
\* classCompute, error map or default
SolverImmutable == [][Running => solver' = solver]_vars

MaxObs == 4

\* observation times are 6, 12, .. 6*MaxTime
MaxTime == 6

\* .125 day
Window == 24

\* the parallax constants of two observatories (pointers into ocdMap)
Pars == {1, 2}

Pos(o1, o2, t) == [o1 |-> o1, o2 |-> o2, t |-> t]

\* a ground-based observation (*obs.SiteObs) or a space-based one
SiteObs(k, t, par) == [sat |-> FALSE, Mjd |-> t, Par |-> par, Sphr |-> Pos(k, k, t)]

SatObs(k, t) == [sat |-> TRUE, Mjd |-> t, Par |-> 0, Sphr |-> Pos(k, k, t)]

\* the tracklets of n observations with strictly increasing times
TrackletsOf(n) ==
    { [k \in 1 .. n |-> IF site[k] = 0 THEN SatObs(k - 1, 6 * time[k])
                        ELSE SiteObs(k - 1, 6 * time[k], site[k])] :
      time \in { f \in [1 .. n -> 1 .. MaxTime] :
                     \A k \in 1 .. n - 1 : f[k] < f[k + 1] },
      site \in [1 .. n -> Pars \cup {0}] }

Tracklets == UNION { TrackletsOf(n) : n \in 2 .. MaxObs }

\* arc[i] of Go
Ix(obs, i) == obs[i + 1]

\* lmf.Rms() of the fit to observations o1..o2 (0.1 arc second): 0 when the
\* observations lie exactly on a great circle, else a value of that fit
Rms(exact, o1, o2) == IF exact THEN 0 ELSE 10 * (o1 + 1) + o2

\* the percentile time wherever it lies
OffArc(dt, end, pt) == pt

\* case 3 of oneObs, arcs that do not use all observations: the percentile
\* time pt, or the time of the arc's inner end when pt is off the arc
OnArc(dt, end, pt) == IF dt < 0 THEN end ELSE pt

\* oneObs (twoobs.go:177-265)
oneObs(o1, o2, arcsUseAllObs, pt, obs, exact) ==
    LET result == Ix(obs, o1)
    IN  IF o1 = o2 THEN [ob |-> result, rms |-> 0]
        ELSE IF o1 = o2 - 1
        THEN LET end == IF o1 = 0 THEN Ix(obs, 1) ELSE result
                 dt == IF o1 = 0 THEN end.Mjd - pt ELSE pt - end.Mjd
                 r2 == Ix(obs, o2)
                 t == IF arcsUseAllObs THEN (result.Mjd + r2.Mjd) \div 2 ELSE pt
             IN  IF ~arcsUseAllObs /\ dt < 0 THEN [ob |-> end, rms |-> 0]
                 ELSE [ob |-> [r2 EXCEPT !.Mjd = t, !.Sphr = Pos(o1, o2, t)],
                       rms |-> 0]
        ELSE LET is == (o1 + o2) \div 2
                 res == IF ~arcsUseAllObs /\ o1 = 0 THEN Ix(obs, o2) ELSE result
                 dt == IF o1 = 0 THEN res.Mjd - pt ELSE pt - res.Mjd
                 tr == IF arcsUseAllObs
                       THEN IF is + is < o1 + o2
                            THEN (Ix(obs, is).Mjd + Ix(obs, is + 1).Mjd) \div 2
                            ELSE Ix(obs, is).Mjd
                       ELSE OnArc(dt, res.Mjd, pt)
             IN  [ob |-> [res EXCEPT !.Mjd = tr, !.Sphr = Pos(o1, o2, tr)],
                  rms |-> Rms(exact, o1, o2)]

\* the inner loop extending the final arc (twoobs.go:130-140)
RECURSIVE ExtendFinal(_, _, _)
ExtendFinal(obs, o1, o2) ==
    LET o == o2 - 1
        t2 == Ix(obs, Len(obs) - 1).Mjd
        par2 == Ix(obs, Len(obs) - 1).Par
    IN  IF o = o1 THEN <<o1, o2>>
        ELSE IF Ix(obs, o).Par # par2 \/ t2 - Ix(obs, o).Mjd > Window THEN <<o1, o2>>
        ELSE ExtendFinal(obs, o1, o)

\* an extension of the initial arc that does not look at the times
RECURSIVE ExtendInitialAnySpan(_, _, _)
ExtendInitialAnySpan(obs, o1, o2) ==
    LET o == o1 + 1
    IN  IF o = o2 THEN <<o1, o2>>
        ELSE IF Ix(obs, o).Par # Ix(obs, 0).Par THEN <<o1, o2>>
        ELSE ExtendInitialAnySpan(obs, o, o2)

\* the inner loop extending the initial arc (twoobs.go:147-157)
RECURSIVE ExtendInitial(_, _, _)
ExtendInitial(obs, o1, o2) ==
    LET o == o1 + 1
        t1 == Ix(obs, 0).Mjd
        par1 == Ix(obs, 0).Par
    IN  IF o = o2 THEN <<o1, o2>>
        ELSE IF Ix(obs, o).Par # par1 \/ Ix(obs, o).Mjd - t1 > Window THEN <<o1, o2>>
        ELSE ExtendInitial(obs, o, o2)

\* the loop splitting off the initial and the final arc (twoobs.go:125-170)
RECURSIVE SplitArcs(_, _, _)
SplitArcs(obs, o1, o2) ==
    LET t1 == Ix(obs, 0).Mjd
        par1 == Ix(obs, 0).Par
        t2 == Ix(obs, Len(obs) - 1).Mjd
        par2 == Ix(obs, Len(obs) - 1).Par
        dt1 == Ix(obs, o1 + 1).Mjd - t1
        dt2 == t2 - Ix(obs, o2 - 1).Mjd
    IN  IF Ix(obs, o1 + 1).Par # par1 \/ dt1 > Window THEN ExtendFinal(obs, o1, o2)
        ELSE IF Ix(obs, o2 - 1).Par # par2 \/ dt2 > Window
        THEN ExtendInitial(obs, o1, o2)
        ELSE LET n1 == IF dt1 < dt2 THEN o1 + 1 ELSE o1
                 n2 == IF dt1 < dt2 THEN o2 ELSE o2 - 1
             IN  IF n2 = n1 + 1 THEN <<n1, n2>> ELSE SplitArcs(obs, n1, n2)

\* a test for the simplest case that two observations do not pass
FewerThanTwo(n) == n < 2

\* len(arc) == 2 (twoobs.go:22)
TwoPoints(n) == n = 2

\* the time of the lower observation, without the interpolation
T17NoFraction(obs, is, f6) == Ix(obs, is).Mjd

\* t17 (twoobs.go:80-81): is and f6/6 are the whole and fractional parts of
\* (len(arc)-1)/6
T17(obs, is, f6) ==
    Ix(obs, is).Mjd + ((Ix(obs, is + 1).Mjd - Ix(obs, is).Mjd) * f6) \div 6

\* the 83rd percentile taken at the index of the 17th
T83NotMirrored(obs, is, f6) == Ix(obs, is).Mjd

\* t83 (twoobs.go:82-84)
T83(obs, is, f6) ==
    LET js == Len(obs) - 1 - is
    IN  Ix(obs, js).Mjd - ((Ix(obs, js).Mjd - Ix(obs, js - 1).Mjd) * f6) \div 6

\* twoObs (twoobs.go:17-175): tk.first, tk.last and tk.rms as the call leaves
\* them (tk.rms is 0 in a new workspace), and the two values returned
twoObs(obs, exact) ==
    LET n == Len(obs)
        site0 == Ix(obs, 0)
        siteLast == Ix(obs, n - 1)
        rms == Rms(exact, 0, n - 1)
        spaceBased == \E k \in 0 .. n - 1 : Ix(obs, k).sat
        par0 == IF site0.sat THEN 0 ELSE site0.Par
        allSameSite == \A k \in 1 .. n - 1 : ~Ix(obs, k).sat => Ix(obs, k).Par = par0
        is == (n - 1) \div 6
        f6 == (n - 1) % 6
        t17 == T17(obs, is, f6)
        t83 == T83(obs, is, f6)
        o == SplitArcs(obs, 0, n - 1)
        one1 == oneObs(0, o[1], o[2] = o[1] + 1, t17, obs, exact)
        one2 == oneObs(o[2], n - 1, o[2] = o[1] + 1, t83, obs, exact)
    IN  IF TwoPoints(n)
        THEN [first |-> site0, last |-> siteLast, rms |-> 0,
              firstRms |-> 0, lastRms |-> 0]
        ELSE IF spaceBased
        THEN [first |-> Ix(obs, is), last |-> Ix(obs, n - 1 - is), rms |-> rms,
              firstRms |-> 0, lastRms |-> 0]
        ELSE IF allSameSite /\ siteLast.Mjd - site0.Mjd < Window
        THEN [first |-> [site0 EXCEPT !.Mjd = t17, !.Sphr = Pos(0, n - 1, t17),
                                      !.Par = par0],
              last |-> [siteLast EXCEPT !.Mjd = t83, !.Sphr = Pos(0, n - 1, t83),
                                        !.Par = par0],
              rms |-> rms, firstRms |-> rms, lastRms |-> rms]
        ELSE [first |-> one1.ob, last |-> one2.ob, rms |-> rms,
              firstRms |-> one1.rms, lastRms |-> one2.rms]

\* before twoObs has returned
NoEndpoints ==
    [first |-> SatObs(0, 0), last |-> SatObs(0, 0), rms |-> 0,
     firstRms |-> 0, lastRms |-> 0]

\* everything but the probe at rest
Quiet ==
    /\ muk = NoMuk
    /\ solver = NoSolver
    /\ repeatable = FALSE
    /\ arcCh = <<>>
    /\ history = <<>>
    /\ arc = NoArc
    /\ tk = NoTracklet
    /\ rnd = NewRand(FALSE)
    /\ stack = <<>>
    /\ ret = FALSE
    /\ phase = "idle"
    /\ promoted = NoPromotions(<<>>)
    /\ saCalls = <<>>
    /\ drv = NoDrv

probeRest == <<muk, solver, repeatable, arcCh, history, arc, tk, rnd, stack, ret,
               phase, promoted, saCalls, drv>>

\* a workspace with its tracklet, before score calls twoObs
InitTwo ==
    /\ Quiet
    /\ \E obs \in Tracklets, exact \in BOOLEAN :
           probe = [fn |-> "twoObs", obs |-> obs, exact |-> exact, done |-> FALSE,
                    out |-> NoEndpoints]

\* score, line 150: firstRms, lastRms := tk.twoObs()
TwoObs ==
    /\ probe.fn = "twoObs" /\ ~probe.done
    /\ probe' = [probe EXCEPT !.done = TRUE, !.out = twoObs(probe.obs, probe.exact)]
    /\ UNCHANGED probeRest

SpecTwo == InitTwo /\ [][TwoObs]_vars

\* C14: a tracklet of exactly two observations yields first = obs[0],
\* last = obs[1], arc RMS = 0 and endpoint RMS = (0, 0), whatever the sites
\* of the two observations.
C14_TwoObservations ==
    (probe.done /\ Len(probe.obs) = 2) =>
        /\ probe.out.first = Ix(probe.obs, 0)
        /\ probe.out.last = Ix(probe.obs, 1)
        /\ probe.out.rms = 0
        /\ probe.out.firstRms = 0 /\ probe.out.lastRms = 0

\* twoObs has been applied to two observations of one ground site whose fit
\* would not be exact
C14_TwoFromOneSite ==
    /\ probe.done /\ Len(probe.obs) = 2 /\ ~probe.exact
    /\ \A k \in 0 .. 1 : ~Ix(probe.obs, k).sat /\ Ix(probe.obs, k).Par = 1
    /\ probe.out.first = Ix(probe.obs, 0)

\* three or more ground-based observations that share one parallax constant
\* and span less than 0.125 day
ShortSingleSite(obs) ==
    /\ Len(obs) >= 3
    /\ \A k \in 0 .. Len(obs) - 1 : ~Ix(obs, k).sat /\ Ix(obs, k).Par = Ix(obs, 0).Par
    /\ Ix(obs, Len(obs) - 1).Mjd - Ix(obs, 0).Mjd < Window

\* t is the linear interpolation at (N-1)/6 into the observation times,
\* counted from the start
IsT17(obs, t) ==
    LET is == (Len(obs) - 1) \div 6
        f6 == (Len(obs) - 1) % 6
    IN  6 * t = 6 * Ix(obs, is).Mjd + f6 * (Ix(obs, is + 1).Mjd - Ix(obs, is).Mjd)

\* the same counted from the end
IsT83(obs, t) ==
    LET js == Len(obs) - 1 - (Len(obs) - 1) \div 6
        f6 == (Len(obs) - 1) % 6
    IN  6 * t = 6 * Ix(obs, js).Mjd - f6 * (Ix(obs, js).Mjd - Ix(obs, js - 1).Mjd)

\* C15: for a tracklet of three or more ground-based observations that all
\* share one parallax constant and span less than 0.125 day, twoObs returns
\* both endpoint RMS values equal to the arc RMS, and the two synthesised
\* endpoints carry the times t17 and t83 and that parallax constant.
C15_ShortSingleSite ==
    (probe.done /\ ShortSingleSite(probe.obs)) =>
        /\ probe.out.rms = Rms(probe.exact, 0, Len(probe.obs) - 1)
        /\ probe.out.firstRms = probe.out.rms /\ probe.out.lastRms = probe.out.rms
        /\ IsT17(probe.obs, probe.out.first.Mjd)
        /\ IsT83(probe.obs, probe.out.last.Mjd)
        /\ ~probe.out.first.sat /\ probe.out.first.Par = Ix(probe.obs, 0).Par
        /\ ~probe.out.last.sat /\ probe.out.last.Par = Ix(probe.obs, 0).Par

\* twoObs has synthesised the endpoints of four observations of one site
\* within the window, with a fit that is not exact
C15_FourInWindow ==
    /\ probe.done /\ ShortSingleSite(probe.obs) /\ Len(probe.obs) = 4
    /\ ~probe.exact /\ probe.out.firstRms > 0
    /\ probe.out.first.Mjd > Ix(probe.obs, 0).Mjd
    /\ probe.out.last.Mjd < Ix(probe.obs, 3).Mjd

\* ---------------------------------------------------------------------
\* Qei and H on their own: the bin indexes of an orbit's elements.
\* ---------------------------------------------------------------------

\* The elements handed to Qei and H: whole numbers on either side of every
\* partition edge, and the float64 that is not a number.  AeiHv returns
\* e = math.Sqrt(1 - hsq*inva) (part_001:51), which is not a number when
\* rounding leaves the argument of a circular orbit just below zero; its
\* test e > .99 lets that through, and tagAngle goes on to q = a*(1-e).
Edges(part) == UNION {{part[k] - 1, part[k]} : k \in 1 .. Len(part)}

Elements(part) == {NaN, 0} \cup Edges(part)

InitBin ==
    /\ Quiet
    /\ \E q \in Elements(QPart), e \in Elements(EPart),
          i \in Elements(IPart), h \in Elements(HPart) :
            probe = [fn |-> "Qeih", q |-> q, e |-> e, i |-> i, h |-> h,
                     done |-> FALSE,
                     out |-> [qx |-> 0, ex |-> 0, ix |-> 0, hx |-> 0, inModel |-> FALSE]]

\* Qeih: Qei, then H when the orbit is in the model
QeihProbe ==
    /\ probe.fn = "Qeih" /\ ~probe.done
    /\ \E b \in {Qei(probe.q, probe.e, probe.i)} :
          probe' = [probe EXCEPT !.done = TRUE,
                       !.out = [qx |-> b.qx, ex |-> b.ex, ix |-> b.ix,
                                hx |-> IF b.inModel THEN H(probe.h) ELSE 0,
                                inModel |-> b.inModel]]
    /\ UNCHANGED probeRest

SpecBin == InitBin /\ [][QeihProbe]_vars

\* v < x of float64: false when v is not a number
LT(v, x) == v # NaN /\ v < x

\* the indexes k (from 0) with v < A[k]
Below(part, v) == {k \in 0 .. (Len(part) - 1) : LT(v, part[k + 1])}

Smallest(S) == CHOOSE k \in S : \A j \in S : k <= j

\* C16: Qei returns on each axis the smallest index k with v < A[k], and
\* reports the orbit out of the model exactly when some axis has no such k;
\* H returns the smallest k with h < HPart[k], LastH when there is none, so
\* its result lies in 0 .. LastH.
C16_SmallestIndexAbove ==
    (probe.fn = "Qeih" /\ probe.done) =>
        LET bq == Below(QPart, probe.q)
            be == Below(EPart, probe.e)
            bi == Below(IPart, probe.i)
            bh == Below(HPart, probe.h)
            all == bq # {} /\ be # {} /\ bi # {}
        IN  /\ probe.out.inModel = all
            /\ all => /\ probe.out.qx = Smallest(bq)
                       /\ probe.out.ex = Smallest(be)
                       /\ probe.out.ix = Smallest(bi)
                       /\ probe.out.hx = (IF bh = {} THEN LastH ELSE Smallest(bh))
                       /\ probe.out.hx \in 0 .. LastH

\* the same for elements that are numbers
C16_NumbersOnly ==
    (NaN \notin {probe.q, probe.e, probe.i, probe.h}) => C16_SmallestIndexAbove

\* an eccentricity that is not a number was binned
C16_NotANumberBinned ==
    /\ probe.fn = "Qeih" /\ probe.done
    /\ probe.e = NaN /\ probe.q = NaN /\ probe.i # NaN
    /\ probe.out.inModel /\ probe.out.qx = 0 /\ probe.out.ex = 0

\* ---------------------------------------------------------------------
\* Mx on its own: the flat index of a bin.
\* ---------------------------------------------------------------------

\* the longest partition of a probed model
MaxAxis == 2

\* The lengths of QPart, EPart, IPart and HPart of a loaded model.
Shapes == (1 .. MaxAxis) \X (1 .. MaxAxis) \X (1 .. MaxAxis) \X (1 .. MaxAxis)

\* MSize as muk computes it and the model file carries it
MSizeOf(n) == n[1] * n[2] * n[3] * n[4]

\* the index tuples Qeih returns with inModel = true
InModel(n) == (0 .. n[1] - 1) \X (0 .. n[2] - 1) \X (0 .. n[3] - 1) \X (0 .. n[4] - 1)

MxAt(n, t) == MxOf(n[2], n[3], n[4], t[1], t[2], t[3], t[4])

InitMx ==
    /\ Quiet
    /\ \E n \in Shapes : \E t1 \in InModel(n), t2 \in InModel(n) :
          probe = [fn |-> "Mx", n |-> n, t1 |-> t1, t2 |-> t2, done |-> FALSE,
                   out1 |-> 0, out2 |-> 0]

\* Mx of two bins of one model
MxProbe ==
    /\ probe.fn = "Mx" /\ ~probe.done
    /\ probe' = [probe EXCEPT !.done = TRUE,
                     !.out1 = MxAt(probe.n, probe.t1),
                     !.out2 = MxAt(probe.n, probe.t2)]
    /\ UNCHANGED probeRest

SpecMx == InitMx /\ [][MxProbe]_vars

\* C17: Mx is a bijection between the in-model index tuples and
\* 0 .. MSize-1: every tuple lands in the range, two tuples with one flat
\* index are the same tuple, and every flat index is the index of a tuple.
C17_MxBijection ==
    (probe.fn = "Mx" /\ probe.done) =>
        /\ probe.out1 \in 0 .. (MSizeOf(probe.n) - 1)
        /\ probe.out1 = probe.out2 => probe.t1 = probe.t2
        /\ \A x \in 0 .. (MSizeOf(probe.n) - 1) :
              \E t \in InModel(probe.n) : MxAt(probe.n, t) = x

\* two different bins of a model with MaxAxis bins on every axis, one of
\* them the last
C17_LastBin ==
    /\ probe.fn = "Mx" /\ probe.done
    /\ probe.n = <<MaxAxis, MaxAxis, MaxAxis, MaxAxis>>
    /\ probe.t1 = <<MaxAxis - 1, MaxAxis - 1, MaxAxis - 1, MaxAxis - 1>>
    /\ probe.t2 = <<0, 0, 1, 0>>
    /\ probe.out1 = MSizeOf(probe.n) - 1
    /\ probe.out2 = MaxAxis

\* ---------------------------------------------------------------------
\* Main with a configuration file.
\* ---------------------------------------------------------------------

\* lines of a configuration file
MaxLines == 2

\* the configuration files
Configs == UNION { [1 .. n -> ConfigLines] : n \in 0 .. MaxLines }

\* an observation file with two tracklets and one item s() cannot parse
CfgFile ==
    <<[err |-> FALSE, Obs |-> <<Ob(1, 0, 0), Ob(2, 1, 0)>>], ArcError,
      [err |-> FALSE, Obs |-> <<Ob(1, 0, 0), Ob(2, 0, 0), Ob(3, 0, 1)>>]>>

InitCfg ==
    /\ muk = NoMuk
    /\ solver = NoSolver
    /\ repeatable = FALSE
    /\ arcCh = <<>>
    /\ history = <<>>
    /\ arc = NoArc
    /\ tk = NoTracklet
    /\ rnd = NewRand(FALSE)
    /\ stack = <<>>
    /\ ret = FALSE
    /\ phase = "idle"
    /\ promoted = NoPromotions(<<>>)
    /\ saCalls = <<>>
    /\ probe = NoProbe
    /\ \E config \in Configs, fileEnd \in {"EOF", "err"} :
           drv = Driver(config, CfgFile, fileEnd)

SpecCfg == InitCfg /\ [][NextDrv]_vars

\* a line that names an unknown class, gives obserr for a site the obscode
\* file does not have, or gives an obserr above 10 arc seconds
BadLine(l) ==
    \/ l.k = "class" /\ l.name \notin {ClassAbbr[cx] : cx \in DOMAIN ClassAbbr}
    \/ l.k = "obserr" /\ l.site # "" /\ l.site \notin ocdMap
    \/ l.k = "obserr" /\ l.oe > 100

\* C18: with such a line in the configuration file the program stops in
\* readConfig: Main never gets past it, no solver is constructed, no worker
\* is started, no tracklet is solved and no line is printed.
C18_BadConfigRejected ==
    (drv # NoDrv /\ \E k \in 1 .. Len(drv.config) : BadLine(drv.config[k])) =>
        /\ drv.pc \in {"config", "exit"}
        /\ solver = NoSolver
        /\ drv.started = 0
        /\ Solved = {}
        /\ drv.out = <<>>

\* a file whose second line gives 10.1 arc seconds was read, and Main exited
C18_ExitOnLargeObsErr ==
    /\ drv # NoDrv
    /\ drv.config = <<[k |-> "class", name |-> "NEO"],
                      [k |-> "obserr", site |-> "", oe |-> 101]>>
    /\ drv.pc = "exit"
    /\ solver = NoSolver

\* ---------------------------------------------------------------------
\* lcgRand.Float64 on its own (mcc.go:278-294).
\* ---------------------------------------------------------------------

\* Float64 calls made on one generator
MaxCalls == 60

\* bit j (from 0) of a uint64 held as bytes
Bit(r, j) == (r[(j \div 8) + 1] \div Pow2(j % 8)) % 2

\* the highest bit set among bits 0 .. j, -1 when there is none
RECURSIVE TopBit(_, _)
TopBit(r, j) == IF j < 0 THEN -1 ELSE IF Bit(r, j) = 1 THEN j ELSE TopBit(r, j - 1)

\* r + c * 256^(k-1), from byte k on; the last byte takes the carry
RECURSIVE AddCarry(_, _, _)
AddCarry(r, k, c) ==
    IF k = 8 THEN <<r[8] + c>>
    ELSE <<(r[k] + c) % 256>> \o AddCarry(r, k + 1, (r[k] + c) \div 256)

\* float64(*r): the 53 leading bits of r, rounded to nearest, ties to even.
\* r < 2^59, so at most 6 bits go, all of them in the first byte; rounding
\* up may carry as far as 2^59, which the last byte then holds as 8.
ToFloat64(r) ==
    LET d == TopBit(r, 63) - 52
    IN  IF d <= 0 THEN r
        ELSE LET low == r[1] % Pow2(d)
                 half == Pow2(d - 1)
                 cut == [r EXCEPT ![1] = @ - low]
                 up == low > half \/ (low = half /\ Bit(r, d) = 1)
             IN  IF up THEN AddCarry(cut, 1, Pow2(d)) ELSE cut

\* the state of a generator n calls after the seed: Float64 multiplies the
\* state by lcga each call, so this is 3 * lcga^n & lcgm, lcga^n by squaring.
\* A product that has reached 0 stays 0; a square that has reached 1 stays 1.
RECURSIVE LcgPow(_, _, _, _)
LcgPow(sq, n, j, acc) ==
    IF j > 63 \/ acc = U64(0) \/ sq = U64(1) THEN acc
    ELSE LcgPow(MaskLcgm(MulWrap(sq, sq, 1, 0)), n, j + 1,
                IF Bit(n, j) = 1 THEN MaskLcgm(MulWrap(acc, sq, 1, 0)) ELSE acc)

LcgAfter(n) == LcgPow(lcga, n, 0, LcgSeed)

\* 16295538512389780 calls
FarCalls == <<148, 102, 116, 184, 180, 228, 57, 0>>

\* A generator at the seed, or FarCalls calls after it.
InitLcg ==
    /\ Quiet
    /\ \E far \in BOOLEAN :
          probe = [fn |-> "lcg", far |-> far, calls |-> 0,
                   r |-> IF far THEN LcgAfter(FarCalls) ELSE LcgSeed,
                   prev |-> U64(0), v |-> U64(0)]

\* func (r *lcgRand) Float64(): v is the value returned, in units of 2^-59
\* (invLcgm is a power of two, so the product is exact)
LcgFloat64 ==
    /\ probe.fn = "lcg" /\ probe.calls < MaxCalls
    /\ \E x \in {LcgNext(probe.r)} :
          probe' = [probe EXCEPT !.calls = @ + 1, !.prev = probe.r, !.r = x,
                                 !.v = ToFloat64(x)]
    /\ UNCHANGED probeRest

SpecLcg == InitLcg /\ [][LcgFloat64]_vars

\* byte k (from 1) of a number held in bytes, 0 beyond its last byte
Byte(x, k) == IF k \in DOMAIN x THEN x[k] ELSE 0

\* the sum of x[i] * a[k+1-i] over the bytes both numbers have
RECURSIVE Column(_, _, _, _)
Column(x, a, k, i) ==
    IF i > k THEN 0 ELSE Byte(x, i) * Byte(a, k + 1 - i) + Column(x, a, k, i + 1)

\* x * a in full, sixteen bytes and no wrapping: the bytes from k on
RECURSIVE Product(_, _, _, _)
Product(x, a, k, carry) ==
    IF k > 16 THEN <<>>
    ELSE LET t == carry + Column(x, a, k, 1)
         IN  <<t % 256>> \o Product(x, a, k + 1, t \div 256)

\* p mod 2^59: the low 59 bits
Mod59(p) == [k \in 1 .. 8 |-> IF k = 8 THEN p[8] % 8 ELSE p[k]]

\* after a call: the state is (x * 13^13) mod 2^59 of the state before
LcgStateUpdate == probe.r = Mod59(Product(probe.prev, lcga, 1, 0))

C19_StateAndClosedRange ==
    (probe.fn = "lcg" /\ probe.calls > 0) =>
        /\ LcgStateUpdate
        /\ probe.v[8] < 8 \/ probe.v = <<0, 0, 0, 0, 0, 0, 0, 8>>
        /\ probe.r # U64(0)

\* Float64 returned 1
C19_ReturnedOne ==
    /\ probe.fn = "lcg" /\ probe.calls = 1 /\ probe.far
    /\ probe.v = <<0, 0, 0, 0, 0, 0, 0, 8>>
    /\ probe.r = <<231, 255, 255, 255, 255, 255, 255, 7>>

\* ---------------------------------------------------------------------
\* score from twoObs to the search: the obliquity of the ecliptic
\* (solver.go:147-166, 200-209, 264-282).
\* ---------------------------------------------------------------------

\* e = 23.439 - .00000036*d of Se2000 (part_001:126), counted from its value
\* at time 0 in units of .00000036/192 degree: one unit less every 1/192
\* day.  soe and coe are its sine and cosine, and are named by it.
Obliquity(mjd) == 0 - mjd

\* a vector rotated about the x axis by the obliquity obl
RotateX(v, obl) == [v |-> v, obl |-> obl]

NoVector == RotateX(<<"none">>, 0)

\* a workspace with its tracklet, before score calls twoObs
InitSov ==
    /\ Quiet
    /\ \E obs \in Tracklets :
           probe = [fn |-> "score", pc |-> "twoObs", obs |-> obs,
                    first |-> SatObs(0, 0), last |-> SatObs(0, 0), soe |-> 0,
                    sunObserver0 |-> NoVector, sunObserver1 |-> NoVector,
                    observerObjectUnit0 |-> NoVector,
                    observerObjectUnit1 |-> NoVector]

\* firstRms, lastRms := tk.twoObs()
ScoreTwoObs ==
    /\ probe.fn = "score" /\ probe.pc = "twoObs"
    /\ \E r \in {twoObs(probe.obs, TRUE)} :
          probe' = [probe EXCEPT !.pc = "sov0", !.first = r.first, !.last = r.last]
    /\ UNCHANGED probeRest

\* tk.sunObserver0 = tk.sov(tk.first): sov sets tk.soe and tk.coe from the
\* time of its argument and rotates by them
ScoreSovFirst ==
    /\ probe.fn = "score" /\ probe.pc = "sov0"
    /\ \E e \in {Obliquity(probe.first.Mjd)} :
          probe' = [probe EXCEPT !.pc = "sov1", !.soe = e,
                       !.sunObserver0 = RotateX(<<"sunObserver", probe.first.Mjd>>, e)]
    /\ UNCHANGED probeRest

\* tk.sunObserver1 = tk.sov(tk.last)
ScoreSovLast ==
    /\ probe.fn = "score" /\ probe.pc = "sov1"
    /\ \E e \in {Obliquity(probe.last.Mjd)} :
          probe' = [probe EXCEPT !.pc = "search", !.soe = e,
                       !.sunObserver1 = RotateX(<<"sunObserver", probe.last.Mjd>>, e)]
    /\ UNCHANGED probeRest

\* searchDistance: tk.offsetMotionVector(ri, di); oouv rotates by tk.soe and
\* tk.coe as they stand
OffsetMotionVector ==
    /\ probe.fn = "score" /\ probe.pc = "search"
    /\ \E ri \in {-1, 0, 1}, di \in {-1, 0, 1} :
          probe' = [probe EXCEPT
              !.observerObjectUnit0 =
                  RotateX(<<"oouv", probe.first.Sphr, ri, di>>, probe.soe),
              !.observerObjectUnit1 =
                  RotateX(<<"oouv", probe.last.Sphr, 0 - ri, 0 - di>>, probe.soe)]
    /\ UNCHANGED probeRest

NextSov == ScoreTwoObs \/ ScoreSovFirst \/ ScoreSovLast \/ OffsetMotionVector

SpecSov == InitSov /\ [][NextSov]_vars

\* C21: during the search the workspace holds the obliquity of the first
\* endpoint's time, and both Sun-observer vectors and both observer-object
\* unit vectors were rotated by it.
C21_ObliquityOfFirst ==
    (probe.fn = "score" /\ probe.pc = "search") =>
        LET e == Obliquity(probe.first.Mjd)
        IN  /\ probe.soe = e
            /\ probe.sunObserver0.obl = e
            /\ probe.sunObserver1.obl = e
            /\ probe.observerObjectUnit0 # NoVector =>
                   /\ probe.observerObjectUnit0.obl = e
                   /\ probe.observerObjectUnit1.obl = e

\* what the code does: the workspace holds the obliquity of the last
\* endpoint's time; only sunObserver0 was rotated by that of the first
C21_ObliquityOfLast ==
    (probe.fn = "score" /\ probe.pc = "search") =>
        /\ probe.soe = Obliquity(probe.last.Mjd)
        /\ probe.sunObserver0.obl = Obliquity(probe.first.Mjd)
        /\ probe.sunObserver1.obl = probe.soe
        /\ probe.observerObjectUnit0 # NoVector =>
               /\ probe.observerObjectUnit0.obl = probe.soe
               /\ probe.observerObjectUnit1.obl = probe.soe

\* ---------------------------------------------------------------------
\* The depth of the recursion of dRange and aRange.
\* ---------------------------------------------------------------------

\* the calls of fn on the stack
Calls(fn) == Cardinality({k \in DOMAIN stack : stack[k].fn = fn})

\* the calls of fn nested inside the outermost one
Nesting(fn) == IF Calls(fn) = 0 THEN 0 ELSE Calls(fn) - 1

\* log2(w / step) rounded up: the halvings that bring w down to step
RECURSIVE Halvings(_, _)
Halvings(w, step) == IF w <= step THEN 0 ELSE 1 + Halvings(w, 2 * step)

\* log2((MAX_D - MIN_D)/MIN_D_STEP) + log2(widest angle range/MIN_ANG_STEP)
\* + AGE_LIMIT, each logarithm rounded up
DepthLimit ==
    Halvings(max_distance - min_distance, minDistanceStep)
    + Halvings(MaxAngle, minAngleStep) + ageLimit

\* C22: at every point of a solve the nesting of dRange calls plus the
\* nesting of aRange calls is at most DepthLimit.
C22_DepthBounded == Nesting("dRange") + Nesting("aRange") <= DepthLimit

\* the nested dRange calls that a range of width w allows by its width
\* alone: dmid halves it
RECURSIVE DCuts(_)
DCuts(w) == IF w <= minDistanceStep THEN 0 ELSE 1 + DCuts((w + 1) \div 2)

\* the same for aRange: mid lies between one and two thirds of the range
RECURSIVE ACuts(_)
ACuts(w) == IF w <= 3 * minAngleStep THEN 0 ELSE 1 + ACuts(w - (w \div 3))

\* the distance-scope tags of every class: dInClass and dNonClass
DistanceTags(t) ==
    UNION { ({<<cx, "in">>} \X t.cs[cx].dInClass) \cup
            ({<<cx, "non">>} \X t.cs[cx].dNonClass) : cx \in DOMAIN t.cs }

\* What holds of the depth: beyond the levels its width and ageLimit allow,
\* a recursion goes one level deeper, and its age starts again, only after
\* a call that tagged something new; dRange counts by halves, aRange by
\* two thirds, and each has its own ageLimit.
C22_DepthBoundedByTags ==
    /\ Calls("dRange") > 0 =>
           Nesting("dRange") <= DCuts(max_distance - min_distance) + ageLimit
                                 + (ageLimit + 1) * Cardinality(TrackletTags(tk))
    /\ Calls("aRange") > 0 =>
           Nesting("aRange") <= ACuts(MaxAngle) + ageLimit
                                 + (ageLimit + 1) * Cardinality(DistanceTags(tk))

\* a solve is deeper than DepthLimit, inside an aRange that went on because
\* tagAngle had tagged a bin
C22_DeeperAfterNewTag ==
    /\ Nesting("dRange") + Nesting("aRange") > DepthLimit
    /\ Nesting("aRange") > ACuts(MaxAngle) + ageLimit
    /\ DistanceTags(tk) # {}

\* ---------------------------------------------------------------------
\* solveAngleRange's discriminant, in float64 arithmetic.
\* ---------------------------------------------------------------------

\* float64 values are the integers up to MaxFloat in magnitude, the two
\* infinities and NaN; a result beyond MaxFloat overflows to an infinity.
MaxFloat == 1000

PosInf == 1 - NaN

NegInf == NaN - 1

Finite(x) == x # NaN /\ x # PosInf /\ x # NegInf

Overflow(x) == IF x > MaxFloat THEN PosInf ELSE IF x < 0 - MaxFloat THEN NegInf ELSE x

\* x * y
MulInf(x, y) ==
    IF x = NaN \/ y = NaN THEN NaN
    ELSE IF Finite(x) /\ Finite(y) THEN Overflow(x * y)
    ELSE IF x = 0 \/ y = 0 THEN NaN
    ELSE IF (x > 0) = (y > 0) THEN PosInf ELSE NegInf

\* x - y
SubInf(x, y) ==
    IF x = NaN \/ y = NaN THEN NaN
    ELSE IF Finite(x) /\ Finite(y) THEN Overflow(x - y)
    ELSE IF Finite(y) THEN x
    ELSE IF x = y THEN NaN
    ELSE IF y = PosInf THEN NegInf ELSE PosInf

\* x / y, y never the negative zero (the divisors are square roots)
DivInf(x, y) ==
    IF x = NaN \/ y = NaN THEN NaN
    ELSE IF Finite(x) /\ Finite(y)
         THEN IF y # 0 THEN Overflow(x \div y)
              ELSE IF x = 0 THEN NaN ELSE IF x > 0 THEN PosInf ELSE NegInf
    ELSE IF Finite(x) THEN 0
    ELSE IF ~Finite(y) THEN NaN
    ELSE IF (x > 0) = (y >= 0) THEN PosInf ELSE NegInf

\* v > x of float64: false when either is not a number
GT(v, x) == v # NaN /\ x # NaN /\ v > x

\* the Gaussian constant squared, in the model's units
U == 1

\* dsc of the workspace t: th, aa, bb, cc as solveAngleRange computes them
Discriminant(t) ==
    LET th == DivInf(t.dot, t.observer1Object0Mag)
        aa == t.invdtsq
        bb == MulInf(MulInf(MulInf(-2, t.observer1Object0Mag), th), aa)
        cc == SubInf(MulInf(MulInf(t.observer1Object0Mag, t.observer1Object0Mag), aa),
                   DivInf(2 * U, t.sunObject0Mag))
    IN  SubInf(MulInf(bb, bb), MulInf(MulInf(4, aa), cc))

\* a guard that lets no infinity through
FinitePositive(dsc) == Finite(dsc) /\ dsc > 0

\* the guard: !(dsc > 0) returns
Positive(dsc) == GT(dsc, 0)

\* The two roots' angles.  With an infinite sd, d2 and nn are infinite or
\* NaN, sa = d2*sin(tz)/nn is NaN and so is 2*atan2(sa, 1+ca); otherwise the
\* parabolic limits are two angles, here the ends of the widest range.
RootAngles(dsc) ==
    IF dsc = PosInf THEN [ang1 |-> NaN, ang2 |-> NaN]
    ELSE [ang1 |-> 0, ang2 |-> MaxAngle]

\* The workspaces searchAngles is entered with: the magnitude of
\* observer1Object0, its dot product with observerObjectUnit1 (the unit
\* vector makes it between -mag and mag), invdtsq, and sunObject0Mag, zero
\* for an object placed at the Sun.
InitDsc ==
    /\ Quiet
    /\ \E m \in {0, 1, 3, 30}, c \in {-1, 0, 1}, a \in {1, 4, 400}, sm \in {0, 1, 2} :
           probe = [fn |-> "searchAngles", pc |-> "enter",
                    observer1Object0Mag |-> m, dot |-> c * m, invdtsq |-> a,
                    sunObject0Mag |-> sm,
                    dsc |-> 0, ang1 |-> 0, ang2 |-> 0, ok |-> FALSE]

\* ang1, ang2, ok := tk.solveAngleRange()
SolveAngleRange ==
    /\ probe.fn = "searchAngles" /\ probe.pc = "enter"
    /\ \E dsc \in {Discriminant(probe)} :
          probe' = IF ~Positive(dsc)
                   THEN [probe EXCEPT !.pc = "ranged", !.dsc = dsc]
                   ELSE [probe EXCEPT !.pc = "ranged", !.dsc = dsc, !.ok = TRUE,
                                      !.ang1 = RootAngles(dsc).ang1,
                                      !.ang2 = RootAngles(dsc).ang2]
    /\ UNCHANGED probeRest

\* if !ok { return false }
SearchAnglesNotOk ==
    /\ probe.fn = "searchAngles" /\ probe.pc = "ranged" /\ ~probe.ok
    /\ probe' = [probe EXCEPT !.pc = "false"]
    /\ UNCHANGED probeRest

\* tk.aRange(ang1, ang2, 0): from here on searchAngles is the action
\* SearchAngles of the solve
SearchAnglesOk ==
    /\ probe.fn = "searchAngles" /\ probe.pc = "ranged" /\ probe.ok
    /\ probe' = [probe EXCEPT !.pc = "aRange"]
    /\ UNCHANGED probeRest

NextDsc == SolveAngleRange \/ SearchAnglesNotOk \/ SearchAnglesOk

SpecDsc == InitDsc /\ [][NextDsc]_vars

\* C23: solveAngleRange returns ok = false, and searchAngles returns before
\* aRange with nothing tagged, whenever the discriminant is at most 0 or is
\* NaN, +Inf or -Inf; ok is true only for a finite positive discriminant.
C23_OkOnlyFinitePositive ==
    probe.fn = "searchAngles" /\ probe.pc # "enter" =>
        /\ probe.ok <=> FinitePositive(probe.dsc)
        /\ ~FinitePositive(probe.dsc) => probe.pc # "aRange" /\ tk = NoTracklet

\* what holds: ok is the comparison dsc > 0, which NaN, -Inf and every
\* finite value up to 0 fail and +Inf passes
C23_OkIffGreaterThanZero ==
    probe.fn = "searchAngles" /\ probe.pc # "enter" =>
        /\ probe.ok <=> (probe.dsc # NaN /\ probe.dsc # NegInf /\
                         (Finite(probe.dsc) => probe.dsc > 0))
        /\ probe.pc = "aRange" => probe.ok
        /\ probe.pc = "false" => ~probe.ok

\* aRange is entered with angles that are not numbers
C23_InfinitePasses ==
    /\ probe.fn = "searchAngles" /\ probe.pc = "aRange"
    /\ probe.dsc = PosInf /\ probe.ang1 = NaN

\* the discriminants that are caught
C23_CaughtNaN == probe.fn = "searchAngles" /\ probe.pc = "false" /\ probe.dsc = NaN

C23_CaughtNegInf == probe.fn = "searchAngles" /\ probe.pc = "false" /\ probe.dsc = NegInf

\* ---------------------------------------------------------------------
\* twoObs on longer tracklets: the sub-arcs of the involved case.
\* ---------------------------------------------------------------------

\* the observations of a long tracklet
LongObs == 14

\* Long tracklets of ground-based observations, evenly spaced by 6 or 12
\* (1/32 or 1/16 day): the first a from one observatory, the next up to b
\* from a second, the rest from the first again.
LongTracklets ==
    { [k \in 1 .. LongObs |->
          SiteObs(k - 1, step * k, IF k <= a \/ k > b THEN 1 ELSE 2)] :
      step \in {6, 12}, a \in 1 .. LongObs, b \in 1 .. LongObs }

\* workspaces with short and with long tracklets, before score calls twoObs
InitArcs ==
    /\ Quiet
    /\ \E obs \in Tracklets \cup LongTracklets, exact \in BOOLEAN :
           probe = [fn |-> "twoObs", obs |-> obs, exact |-> exact, done |-> FALSE,
                    out |-> NoEndpoints]

SpecArcs == InitArcs /\ [][TwoObs]_vars

\* the involved case: three or more observations, all ground based, that
\* are not from a single site within the window
Involved(obs) ==
    /\ Len(obs) >= 3
    /\ \A k \in 0 .. Len(obs) - 1 : ~Ix(obs, k).sat
    /\ ~ShortSingleSite(obs)

\* o1 and o2 as the splitting loop leaves them
Split(obs) == SplitArcs(obs, 0, Len(obs) - 1)

\* observations a..b have one parallax constant and span at most the window
OneSiteInWindow(obs, a, b) ==
    /\ \A k \in a .. b : Ix(obs, k).Par = Ix(obs, a).Par
    /\ Ix(obs, b).Mjd - Ix(obs, a).Mjd <= Window

\* C24: in the involved case the splitting loop ends with
\* 0 <= o1 < o2 <= N-1, so the initial sub-arc obs[0..o1] and the final
\* sub-arc obs[o2..N-1] are disjoint, and each has a single parallax
\* constant and spans at most 0.125 day.  (An index outside the list would
\* stop the evaluation of Split.)
C24_SubArcs ==
    (probe.fn = "twoObs" /\ probe.done /\ Involved(probe.obs)) =>
        \E o \in {Split(probe.obs)} :
            /\ 0 <= o[1] /\ o[1] < o[2] /\ o[2] <= Len(probe.obs) - 1
            /\ OneSiteInWindow(probe.obs, 0, o[1])
            /\ OneSiteInWindow(probe.obs, o[2], Len(probe.obs) - 1)

\* twoObs has split a long tracklet into two sub-arcs of several
\* observations each, with observations left between them
C24_TwoArcsAndAGap ==
    /\ probe.fn = "twoObs" /\ probe.done /\ Involved(probe.obs)
    /\ \E o \in {Split(probe.obs)} :
          /\ o[1] >= 2 /\ o[2] <= Len(probe.obs) - 3 /\ o[2] > o[1] + 1
          /\ probe.out.first.Sphr.o2 = o[1]
          /\ probe.out.last.Sphr.o1 = o[2]

\* the median time of observations a..b
MedianTime(obs, a, b) ==
    LET cnt == b - a + 1
        mid == a + (cnt - 1) \div 2
    IN  IF cnt % 2 = 1 THEN Ix(obs, mid).Mjd
        ELSE (Ix(obs, mid).Mjd + Ix(obs, mid + 1).Mjd) \div 2

\* the sub-arcs meet: together they use all observations
ArcsUseAllObs(o) == o[2] = o[1] + 1

\* C25: for a sub-arc of three or more observations oneObs synthesises the
\* endpoint at the sub-arc's median time when the two sub-arcs together use
\* all observations, and otherwise at the percentile time, t17 for the
\* initial sub-arc and t83 for the final one, and it returns the rms of the
\* fit to the sub-arc.
C25_MedianOrPercentile ==
    (probe.fn = "twoObs" /\ probe.done /\ Involved(probe.obs)) =>
        \E o \in {Split(probe.obs)} : \E n \in {Len(probe.obs)} :
            /\ o[1] >= 2 =>
                 /\ IF ArcsUseAllObs(o)
                    THEN probe.out.first.Mjd = MedianTime(probe.obs, 0, o[1])
                    ELSE IsT17(probe.obs, probe.out.first.Mjd)
                 /\ probe.out.firstRms = Rms(probe.exact, 0, o[1])
            /\ n - 1 - o[2] >= 2 =>
                 /\ IF ArcsUseAllObs(o)
                    THEN probe.out.last.Mjd = MedianTime(probe.obs, o[2], n - 1)
                    ELSE IsT83(probe.obs, probe.out.last.Mjd)
                 /\ probe.out.lastRms = Rms(probe.exact, o[2], n - 1)

\* t is the percentile time, or time end when the percentile is off the arc
\* that ends there
T17OnArc(obs, t, end) ==
    IF IsT17(obs, t) THEN t <= end ELSE t = end /\ \E u \in (end + 1) .. (end + 12) : IsT17(obs, u)

T83OnArc(obs, t, end) ==
    IF IsT83(obs, t) THEN t >= end ELSE t = end /\ \E u \in (end - 12) .. (end - 1) : IsT83(obs, u)

\* What holds: as C25, but when the sub-arcs leave observations between
\* them the endpoint is synthesised at the percentile time only if that
\* time lies on the sub-arc, and otherwise at the time of the sub-arc's
\* inner end.
C25_MedianOrPercentileOnArc ==
    (probe.fn = "twoObs" /\ probe.done /\ Involved(probe.obs)) =>
        \E o \in {Split(probe.obs)} : \E n \in {Len(probe.obs)} :
            /\ o[1] >= 2 =>
                 /\ IF ArcsUseAllObs(o)
                    THEN probe.out.first.Mjd = MedianTime(probe.obs, 0, o[1])
                    ELSE T17OnArc(probe.obs, probe.out.first.Mjd, Ix(probe.obs, o[1]).Mjd)
                 /\ probe.out.firstRms = Rms(probe.exact, 0, o[1])
            /\ n - 1 - o[2] >= 2 =>
                 /\ IF ArcsUseAllObs(o)
                    THEN probe.out.last.Mjd = MedianTime(probe.obs, o[2], n - 1)
                    ELSE T83OnArc(probe.obs, probe.out.last.Mjd, Ix(probe.obs, o[2]).Mjd)
                 /\ probe.out.lastRms = Rms(probe.exact, o[2], n - 1)

\* an initial sub-arc of three observations that ends before t17, with a
\* fit that is not exact: the endpoint is at the third observation's time
C25_PercentileOffArc ==
    /\ probe.fn = "twoObs" /\ probe.done /\ Involved(probe.obs) /\ ~probe.exact
    /\ \E o \in {Split(probe.obs)} :
          /\ o[1] = 2 /\ ~ArcsUseAllObs(o)
          /\ probe.out.first.Mjd = Ix(probe.obs, 2).Mjd
          /\ ~IsT17(probe.obs, probe.out.first.Mjd)
          /\ probe.out.firstRms = Rms(FALSE, 0, 2)

\* an initial sub-arc of three observations that meets the final one: its
\* endpoint is at the median time
C25_AtMedian ==
    /\ probe.fn = "twoObs" /\ probe.done /\ Involved(probe.obs)
    /\ \E o \in {Split(probe.obs)} :
          /\ o[1] >= 2 /\ ArcsUseAllObs(o)
          /\ probe.out.first.Mjd = MedianTime(probe.obs, 0, o[1])

\* a sub-arc whose endpoint is at the percentile time
C25_AtPercentile ==
    /\ probe.fn = "twoObs" /\ probe.done /\ Involved(probe.obs)
    /\ \E o \in {Split(probe.obs)} :
          /\ o[1] >= 2 /\ ~ArcsUseAllObs(o)
          /\ IsT17(probe.obs, probe.out.first.Mjd)
          /\ probe.out.first.Mjd < Ix(probe.obs, o[1]).Mjd

\* C29: for every tracklet of two or more observations with strictly
\* increasing times, the endpoints twoObs chooses or synthesises satisfy
\* t_first < t_last, t_first is not before the first observation and t_last
\* not after the last, so dt = t_last - t_first, whose inverse score takes,
\* is strictly positive.
C29_EndpointsInOrder ==
    (probe.fn = "twoObs" /\ probe.done) =>
        /\ probe.out.first.Mjd < probe.out.last.Mjd
        /\ probe.out.first.Mjd >= Ix(probe.obs, 0).Mjd
        /\ probe.out.last.Mjd <= Ix(probe.obs, Len(probe.obs) - 1).Mjd
        /\ probe.out.last.Mjd - probe.out.first.Mjd > 0

\* twoObs has synthesised both endpoints of a long tracklet inside it, from
\* sub-arcs of several observations
C29_BothInside ==
    /\ probe.fn = "twoObs" /\ probe.done /\ Involved(probe.obs)
    /\ Len(probe.obs) = LongObs
    /\ Split(probe.obs)[1] >= 1 /\ Split(probe.obs)[2] <= LongObs - 2
    /\ probe.out.first.Mjd > Ix(probe.obs, 0).Mjd
    /\ probe.out.last.Mjd < Ix(probe.obs, LongObs - 1).Mjd
    /\ probe.out.first.Mjd < probe.out.last.Mjd

\* ---------------------------------------------------------------------
\* tagAngle on its own: the orbits that are not tagged.
\* ---------------------------------------------------------------------

\* the calls of tagAngle followed at one distance
MaxTagCalls == 3

\* the state vectors tagAngle may meet
TagVectors == {SvNeo, SvMb, SvOut, SvHyp, SvPar, SvCirc}

\* A workspace set up at a distance, as searchAngles finds it after
\* clearDTags: nothing tagged yet at this distance.
InitTag ==
    /\ solver = New(MukAll(NewModel, NewModel), MukUnk(NewModel, NewModel),
                    <<1, 2>>, NoObsErrMap, 0)
    /\ muk = NoMuk
    /\ repeatable = TRUE
    /\ arcCh = <<>>
    /\ history = <<>>
    /\ \E s1 \in TagVectors, s2 \in TagVectors, hm \in {224, 227} :
          /\ arc = [otk |-> NoArc.otk,
                    sky |-> [hmag |-> <<hm, hm>>, range |-> <<WideRange, WideRange>>,
                             sv |-> << <<s1, s2>>, <<s1, s2>> >>]]
          /\ tk = [newTracklet(solver) EXCEPT !.d = min_distance, !.hmag = hm,
                                              !.hmagBin = H(hm)]
    /\ rnd = NewRand(repeatable)
    /\ stack = <<>>
    /\ ret = FALSE
    /\ phase = "idle"
    /\ promoted = NoPromotions(solver.classCompute)
    /\ saCalls = <<>>
    /\ drv = NoDrv
    /\ probe = [fn |-> "tagAngle", n |-> 0, before |-> tk, ret |-> FALSE,
                nil |-> FALSE, q |-> 0, e |-> 0, i |-> 0]

\* tagAngle(an), an in the lower or in the upper half of the angle range
TagAngle ==
    /\ probe.fn = "tagAngle" /\ probe.n < MaxTagCalls
    /\ \E an \in {0, MaxAngle} :
       \E o \in {AeiHv(arc.sky.sv[DBand(tk.d)][ABand(an)])} :
       \E orb \in {solveOrbit(tk, an)} :
       \E ta \in {tagOrbit(tk, orb)} :
          /\ tk' = ta.tk
          /\ probe' = [probe EXCEPT !.n = @ + 1, !.before = tk, !.ret = ta.newTag,
                                    !.nil = ~o.ok, !.q = orb.q, !.e = o.e, !.i = o.i]
    /\ UNCHANGED <<muk, solver, repeatable, arcCh, history, arc, rnd, stack, ret,
                   phase, promoted, saCalls, drv>>

SpecTag == InitTag /\ [][TagAngle]_vars

\* an element that no bin of the partition holds: no edge lies above it
OffPartition(part, v) == Below(part, v) = {}

\* (q, e, i) falls outside the bin partitions
OutsidePartitions(q, e, i) ==
    OffPartition(QPart, q) \/ OffPartition(EPart, e) \/ OffPartition(IPart, i)

\* C26: when AeiHv yields no elements (the a or the e stability gate) or
\* (q, e, i) falls outside the bin partitions, tagAngle returns false and
\* leaves every tag set, dAnyTag and every sum of the workspace unchanged.
C26_FalseAndUntouched ==
    (probe.fn = "tagAngle" /\ probe.n > 0 /\
     (probe.nil \/ OutsidePartitions(probe.q, probe.e, probe.i))) =>
        ~probe.ret /\ tk = probe.before

\* what holds: the same for elements that are numbers
C26_NumbersFalseAndUntouched ==
    (probe.fn = "tagAngle" /\ probe.n > 0 /\
     (probe.nil \/
      (probe.q # NaN /\ probe.e # NaN /\ probe.i # NaN /\
       OutsidePartitions(probe.q, probe.e, probe.i)))) =>
        ~probe.ret /\ tk = probe.before

\* tagAngle has tagged a bin for elements that are not numbers
C26_NaNTagged ==
    /\ probe.fn = "tagAngle" /\ probe.n > 0 /\ ~probe.nil
    /\ probe.e = NaN /\ probe.q = NaN
    /\ probe.ret /\ tk.dAnyTag /\ tk # probe.before

\* tagAngle has returned false for an orbit beyond the q partition, after
\* a call that tagged
C26_OutOfModelAfterTag ==
    /\ probe.fn = "tagAngle" /\ probe.n > 1 /\ ~probe.nil
    /\ probe.q # NaN /\ OffPartition(QPart, probe.q)
    /\ ~probe.ret /\ tk = probe.before /\ tk.dAnyTag

\* ---------------------------------------------------------------------
\* SplitTracklets on its own: observation lines into candidate tracklets.
\* ---------------------------------------------------------------------

\* the lines of an observation file
MaxFileLines == 4

\* A line: an observation of object A or B that parses, an 80-column line
\* that does not parse, a line that is not 80 characters long, or the second
\* line of a satellite observation (column 15 is 's').
LineKinds == {"A", "B", "bad", "short", "sat2"}

ObsFileLines == UNION { [1 .. n -> LineKinds] : n \in 0 .. MaxFileLines }

Parses(line) == line \in {"A", "B"}

\* the observation ParseObs80 yields for line k: later lines are later and
\* elsewhere in the sky
ObsOfLine(k) == Ob(k, k, 0)

InitSplit ==
    /\ Quiet
    /\ \E lines \in ObsFileLines, end \in {"EOF", "err"} :
          probe = [fn |-> "SplitTracklets", lines |-> lines, fileEnd |-> end,
                   pos |-> 1, des0 |-> "", obuf |-> <<>>,
                   offered |-> <<>>, tkCh |-> <<>>, errCh |-> <<>>,
                   closed |-> FALSE]

\* sendValid(des0, obuf, tkCh) in state p: the candidate is noted, and sent
\* when its observations make a valid tracklet
SendCandidate(p) ==
    IF p.obuf = <<>> THEN p
    ELSE [p EXCEPT !.offered = Append(@, p.obuf),
                   !.tkCh = IF sendValid([k \in DOMAIN p.obuf |-> ObsOfLine(p.obuf[k])])
                            THEN Append(@, [Desig |-> p.des0, Obs |-> p.obuf])
                            ELSE @]

\* a test of the designation that every line passes
AnyRun(des0, desig) == TRUE

\* case desig == des0
SameRun(des0, desig) == desig = des0

\* one turn of the loop for a line that was read
SplitLine ==
    /\ probe.fn = "SplitTracklets" /\ ~probe.closed
    /\ probe.pos <= Len(probe.lines)
    /\ \E k \in {probe.pos} : \E line \in {probe.lines[k]} :
       \E p \in {[probe EXCEPT !.pos = k + 1]} :
          probe' = IF line = "short" \/ line = "sat2" THEN p
                   ELSE IF ~Parses(line)
                   THEN [SendCandidate(p) EXCEPT !.obuf = <<>>]
                   ELSE IF p.obuf = <<>>
                   THEN [p EXCEPT !.des0 = line, !.obuf = <<k>>]
                   ELSE IF SameRun(p.des0, line)
                   THEN [p EXCEPT !.obuf = Append(@, k)]
                   ELSE [SendCandidate(p) EXCEPT !.des0 = line, !.obuf = <<k>>]
    /\ UNCHANGED probeRest

\* io.EOF: break; sendValid; close(tkCh)
SplitEOF ==
    /\ probe.fn = "SplitTracklets" /\ ~probe.closed
    /\ probe.pos > Len(probe.lines) /\ probe.fileEnd = "EOF"
    /\ probe' = [SendCandidate(probe) EXCEPT !.closed = TRUE]
    /\ UNCHANGED probeRest

\* another error: errCh <- err; break; sendValid; close(tkCh)
SplitReadError ==
    /\ probe.fn = "SplitTracklets" /\ ~probe.closed
    /\ probe.pos > Len(probe.lines) /\ probe.fileEnd = "err"
    /\ probe' = [SendCandidate(probe) EXCEPT !.closed = TRUE,
                                             !.errCh = Append(@, "read error")]
    /\ UNCHANGED probeRest

NextSplit == SplitLine \/ SplitEOF \/ SplitReadError

SpecSplit == InitSplit /\ [][NextSplit]_vars

\* the lines that parsed
Parsed(lines) == {k \in DOMAIN lines : Parses(lines[k])}

\* parsed lines i and j belong to one run: the same designation, and between
\* them only lines of that designation and lines that are skipped
OneRun(lines, i, j) ==
    \A k \in i .. j : lines[k] = lines[i] \/ lines[k] \in {"short", "sat2"}

Members(c) == {c[k] : k \in DOMAIN c}

\* C27: every parsed line is in exactly one candidate tracklet; a candidate
\* is a maximal run of consecutive parsed lines of one designation, in input
\* order; a line that does not parse ends the run and is in no candidate, a
\* line not 80 characters long is skipped; the candidates are offered in
\* input order, the valid ones are sent, and the channel is closed after the
\* last.
C27_MaximalRuns ==
    (probe.fn = "SplitTracklets" /\ probe.closed) =>
        \E lines \in {probe.lines} : \E cs \in {probe.offered} :
            /\ probe.pos = Len(lines) + 1
            /\ \A i \in Parsed(lines) :
                   Cardinality({k \in DOMAIN cs : i \in Members(cs[k])}) = 1
            /\ \A k \in DOMAIN cs :
                   /\ Members(cs[k]) \subseteq Parsed(lines)
                   /\ \A a, b \in DOMAIN cs[k] : a < b => cs[k][a] < cs[k][b]
                   /\ Cardinality(Members(cs[k])) = Len(cs[k])
            /\ \A i, j \in Parsed(lines) :
                   i <= j => (OneRun(lines, i, j) <=>
                                 \E k \in DOMAIN cs : {i, j} \subseteq Members(cs[k]))
            /\ \A k, m \in DOMAIN cs : k < m => cs[k][Len(cs[k])] < cs[m][1]
            /\ probe.tkCh = SelectSeq([k \in DOMAIN cs |->
                                          [Desig |-> lines[cs[k][1]], Obs |-> cs[k]]],
                                      LAMBDA t : Len(t.Obs) >= 2)

\* a file of four lines has been split to its end: a line that does not
\* parse separated two observations of one object, and a short line did not
C27_SplitByBadLine ==
    /\ probe.fn = "SplitTracklets" /\ probe.closed /\ probe.fileEnd = "EOF"
    /\ probe.lines = <<"A", "bad", "A", "short">>
    /\ probe.offered = << <<1>>, <<3>> >>
    /\ probe.tkCh = <<>>

C27_RunAcrossShortLine ==
    /\ probe.fn = "SplitTracklets" /\ probe.closed /\ probe.fileEnd = "EOF"
    /\ probe.lines = <<"A", "short", "A", "B">>
    /\ probe.offered = << <<1, 3>>, <<4>> >>
    /\ probe.tkCh = << [Desig |-> "A", Obs |-> <<1, 3>>] >>

\* ---------------------------------------------------------------------
\* The driver under a scheduler that runs some goroutine that can run.
\* ---------------------------------------------------------------------

\* the items of the observation files that are varied
MaxPipeArcs == 2

ValidArc == [err |-> FALSE, Obs |-> <<Ob(1, 0, 0), Ob(2, 1, 0)>>]

\* Observation files of valid arcs, with at most one item that s() cannot
\* parse and at most one arc of a single observation among them; and a file
\* with more valid arcs than there are workers.
PipeFiles ==
    { [k \in 1 .. n |->
          IF k = bad THEN ArcError
          ELSE IF k = single THEN [err |-> FALSE, Obs |-> <<Ob(1, 0, 0)>>]
          ELSE ValidArc] :
      n \in 0 .. MaxPipeArcs, bad \in 0 .. 1, single \in {0, 2} }
    \cup { <<ValidArc, ValidArc, ValidArc>> }

InitPipe ==
    /\ muk = NoMuk
    /\ solver = NoSolver
    /\ repeatable = FALSE
    /\ arcCh = <<>>
    /\ history = <<>>
    /\ arc = NoArc
    /\ tk = NoTracklet
    /\ rnd = NewRand(FALSE)
    /\ stack = <<>>
    /\ ret = FALSE
    /\ phase = "idle"
    /\ promoted = NoPromotions(<<>>)
    /\ saCalls = <<>>
    /\ probe = NoProbe
    /\ \E file \in PipeFiles, fileEnd \in {"EOF", "err"} :
           drv = Driver(<<>>, file, fileEnd)

SpecPipe == InitPipe /\ [][NextDrv]_vars /\ WF_vars(NextDrv)

\* the splitter has met the read error that ends the observation input
ReadErrorMet ==
    /\ drv.pc \in {"running", "exit", "return"}
    /\ drv.fileEnd = "err" /\ drv.next > Len(drv.file)
    /\ drv.splitter \notin {"read", "send"}

\* C28: once the splitter has met a read error, the print loop receives it
\* from errCh and the program exits with it (exit.Log); in no interleaving
\* does Main return normally after the error.
C28_ReadErrorExits ==
    /\ [](ReadErrorMet => drv.pc # "return")
    /\ ReadErrorMet ~> (drv.pc = "exit")

\* the program has exited on a read error that came after two arcs, with
\* one line printed and the print loop waiting for the other
C28_ExitWithLinePending ==
    /\ ReadErrorMet /\ drv.pc = "exit" /\ drv.splitter = "err"
    /\ Len(drv.file) = 2 /\ Len(drv.out) = 1 /\ drv.main = "wait"

\* the arcs the splitter emits: the items of the file that sendValid sends
Emitted(file) == {a \in DOMAIN file : ~file[a].err /\ sendValid(file[a].Obs)}

====
